---------------------------- MODULE Spec2Model ----------------------------
(***************************************************************************)
(* State-machine model of the PocketLLM Portal client core:                *)
(*   - CacheManager        (services/CacheManager.js, TTL + size eviction) *)
(*   - APIService          (fingerprint, in-service cache, inference send) *)
(*   - SessionManager      (guest/remote session store)                    *)
(* JavaScript strings are sequences of one-character strings, Maps are     *)
(* sequences in insertion order, Date.now() is the variable now (ms).      *)
(***************************************************************************)
EXTENDS Integers, Sequences, FiniteSets, TLC

VARIABLES
  now,        \* Date.now(), milliseconds
  cmCache,    \* CacheManager.cache: Map in insertion order, as a sequence of entries
  cmMaxSize,  \* CacheManager.maxSize, bytes
  cmTtl,      \* CacheManager.ttl, seconds
  cmStats,    \* CacheManager.stats: hits, misses, evictions
  cmLast,     \* the last CacheManager call: what it was given, returned, evicted and kept
  cmSteps,    \* number of CacheManager calls made so far
  apiCache,   \* APIService.cache: Map in insertion order, as a sequence of entries
  apiTelemetry, \* APIService.telemetry
  apiPending, \* requests of APIService awaiting the backend's answer
  apiLast,    \* the last thing sendInferenceRequest did: issued the RPC, returned, threw
  apiSends,   \* number of sendInferenceRequest calls made so far
  rpcCalls,   \* number of POST /inference requests issued so far
  fpConvA,    \* a conversation given to _generateCacheKey
  fpConvB,    \* another conversation given to _generateCacheKey
  fpKeyA,     \* the key computed for fpConvA (Null before the call)
  fpKeyB,     \* the key computed for fpConvB (Null before the call)
  smGuestCapable, \* TRUE for the SessionManager class with guest mode, FALSE for the backend-only one
  smSessions, \* SessionManager.sessions: Map in insertion order, as a sequence of sessions
  smIsGuest,  \* SessionManager.isGuestMode
  smPending,  \* SessionManager calls suspended at their await, with the backend's answer
  smLast,     \* the last SessionManager call that returned: what it was and what it returned
  smOps,      \* number of SessionManager calls made so far
  smNonce,    \* stands for the Date.now() and Math.random() parts of guest session ids
  lsGuestSessions, \* localStorage item 'guestSessions'
  beSessions, \* the sessions the backend holds for the user
  beNext,     \* the number of the next session id the backend gives out
  beWithMessages, \* TRUE when the backend's session objects carry their messages
  ciCurrent,  \* ChatInterface state currentSessionId (<< >> for null)
  ciSessions, \* ChatInterface state sessions: the ids of the sidebar list, in order
  ciMessages, \* ChatInterface state messages: the messages displayed
  ciLoading,  \* ChatInterface state loading
  ciTasks,    \* ChatInterface handlers suspended at an await, with what they closed over
  ciOps,      \* number of user actions handled so far
  appAwaits,  \* the call a handler of App awaits: "logout" or "signOut" (handleLogout),
              \* "login", "initialize" or "loginSignOut" (handleLoginSuccess), or "idle"
  tsLogs,     \* TelemetryService.logs
  tsCalls,    \* number of TelemetryService calls made so far
  mmCurrentModel, \* ModelManager.currentModel: <<id>>, or << >> for null
  mmLoadedModel,  \* ModelManager.loadedModel: <<id>>, or << >> for null
  mmIsLoading,    \* ModelManager.isLoading
  mmStatus,       \* ModelManager.status
  mmLoading,      \* the loadModel calls suspended at their timer, oldest first
  mmLast,         \* what the last ModelManager call returned or threw
  mmOps           \* number of ModelManager calls made so far

cmVars == <<cmCache, cmMaxSize, cmTtl, cmStats, cmLast, cmSteps>>
apiVars == <<apiCache, apiTelemetry, apiPending, apiLast, apiSends, rpcCalls>>
fpVars == <<fpConvA, fpConvB, fpKeyA, fpKeyB>>
smVars == <<smGuestCapable, smSessions, smIsGuest, smPending, smLast, smOps, smNonce,
            lsGuestSessions, beSessions, beNext, beWithMessages>>
ciVars == <<ciCurrent, ciSessions, ciMessages, ciLoading, ciTasks, ciOps>>
appVars == <<appAwaits>>
telVars == <<tsLogs, tsCalls>>
mmVars == <<mmCurrentModel, mmLoadedModel, mmIsLoading, mmStatus, mmLoading, mmLast, mmOps>>
vars == <<now, cmVars, apiVars, fpVars, smVars, ciVars, appVars, telVars, mmVars>>
otherVars == <<now, cmVars, apiVars, fpVars, ciVars, appVars, telVars, mmVars>>
\* all but the SessionManager's state and the telemetry of APIService
quietVars == <<now, cmVars, fpVars, ciVars, appVars, telVars, mmVars, apiCache, apiPending, apiLast, apiSends, rpcCalls>>

Null == "null"

-----------------------------------------------------------------------------
(* Bounds of the model *)

StartTime == 1000
MaxTime == 2500
MaxCacheOps == 4
MaxLookupOps == 3
MaxLogCalls == 2
MaxModelOps == 4
MaxSends == 2
MaxInFlight == 1
MaxConvLen == 2
MaxSessionOps == 3
MaxAwaiting == 1
MaxCreates == 1
MaxMessages == 2

TickSteps == {500}

-----------------------------------------------------------------------------
(* JavaScript strings *)

TxtEmpty == << >>
TxtHi == <<"h", "i">>
TxtHiVariant == <<" ", "H", "i">>
TxtYo == <<"y", "o">>
\* a prompt long enough for its hash to leave the 32-bit range and wrap
TxtLong == <<"y", "y", "y", "y", "y", "y", "y">>
TxtOk == <<"o", "k">>
TxtOkay == <<"o", "k", "a", "y">>

\* String.prototype.charCodeAt for the characters the model uses
CharCode(ch) ==
  CASE ch = " " -> 32
    [] ch = "H" -> 72
    [] ch = "a" -> 97
    [] ch = "h" -> 104
    [] ch = "i" -> 105
    [] ch = "k" -> 107
    [] ch = "o" -> 111
    [] ch = "y" -> 121
    [] OTHER -> 63

\* String.prototype.toLowerCase, per character
LowerChar(ch) == IF ch = "H" THEN "h" ELSE ch

ToLowerCase(s) == [i \in 1..Len(s) |-> LowerChar(s[i])]

IsSpace(ch) == ch = " "

RECURSIVE TrimStart(_)
TrimStart(s) ==
  IF s = << >> THEN s
  ELSE IF IsSpace(Head(s)) THEN TrimStart(Tail(s)) ELSE s

RECURSIVE TrimEnd(_)
TrimEnd(s) ==
  IF s = << >> THEN s
  ELSE IF IsSpace(s[Len(s)]) THEN TrimEnd(SubSeq(s, 1, Len(s) - 1)) ELSE s

\* String.prototype.trim
Trim(s) == TrimEnd(TrimStart(s))

\* String.prototype.substring(0, n)
Substring0(s, n) == IF Len(s) <= n THEN s ELSE SubSeq(s, 1, n)

\* number of characters of the decimal rendering of a non-negative integer
RECURSIVE Digits(_)
Digits(n) == IF n < 10 THEN 1 ELSE 1 + Digits(n \div 10)

-----------------------------------------------------------------------------
(* CacheManager *)

MaxInt32 == 2147483647

\* the ToInt32 conversion of the bitwise operators (hash << 5, hash & hash): the
\* value modulo 2^32, taken in -2^31 .. 2^31 - 1
ToInt32(x) ==
  IF (0 - MaxInt32) - 1 <= x /\ x <= MaxInt32 THEN x
  ELSE LET m == x % ((MaxInt32 + 1) * 2)
       IN IF m > MaxInt32 THEN m - ((MaxInt32 + 1) * 2) ELSE m

\* hash << 5: the low 27 bits of the 32-bit value move up by five, bit 26 becomes
\* the sign
ShiftLeft5(x) ==
  LET low == ToInt32(x) % 134217728
  IN IF low >= 67108864 THEN (low - 134217728) * 32 ELSE low * 32

\* ToInt32(a - b) for 32-bit a and b, computed without leaving the 32-bit range
Minus32(a, b) ==
  IF a >= 0 /\ b < 0 /\ a > MaxInt32 + b
  THEN ((a - MaxInt32) - 1) - ((b + MaxInt32) + 1)
  ELSE IF a < 0 /\ b > 0 /\ a < (b - MaxInt32) - 1
  THEN ((a + MaxInt32) + 1) + ((MaxInt32 - b) + 1)
  ELSE a - b

\* Math.abs; for -2^31 the result, 2^31, is past the 32-bit range
Abs(x) == IF x < 0 THEN 0 - x ELSE x

\* the loop of _generateKey: hash = ((hash << 5) - hash) + char; hash = hash & hash
RECURSIVE HashLoop(_, _, _)
HashLoop(s, i, hash) ==
  IF i > Len(s) THEN hash
  ELSE HashLoop(s, i + 1,
                ToInt32(Minus32(Minus32(ShiftLeft5(hash), hash), 0 - CharCode(s[i]))))

\* CacheManager._generateKey: `cache_${Math.abs(hash)}` of the normalized prompt
_generateKey(prompt) == <<"cache_", Abs(HashLoop(Trim(ToLowerCase(prompt)), 1, 0))>>

\* JSON.stringify(entry).length for an entry with metadata {}
JsonLength(entry) ==
  82 + Len(entry.prompt) + Len(entry.response) + Digits(entry.createdAt)
     + Digits(entry.expiresAt) + Digits(entry.accessCount)

\* CacheManager._sizeOf
_sizeOf(entry) == JsonLength(entry) * 2

RECURSIVE SumSizes(_, _)
SumSizes(c, i) == IF i > Len(c) THEN 0 ELSE _sizeOf(c[i]) + SumSizes(c, i + 1)

\* CacheManager._getCacheSize
_getCacheSize(c) == SumSizes(c, 1)

RemoveAt(c, i) == SubSeq(c, 1, i - 1) \o SubSeq(c, i + 1, Len(c))

\* the scan of _evictOldest: the first entry with the smallest createdAt
RECURSIVE OldestScan(_, _, _)
OldestScan(c, i, best) ==
  IF i > Len(c) THEN best
  ELSE IF best = 0 \/ c[i].createdAt < c[best].createdAt
       THEN OldestScan(c, i + 1, i)
       ELSE OldestScan(c, i + 1, best)

NewestScanMutant(c) ==
  CHOOSE i \in 1..Len(c) : \A j \in 1..Len(c) : c[j].createdAt <= c[i].createdAt

\* index of the entry _evictOldest deletes (0 when the cache is empty)
OldestIndex(c) == OldestScan(c, 1, 0)

\* CacheManager._evictOldest, on the Map contents
_evictOldest(c) == IF Len(c) = 0 THEN c ELSE RemoveAt(c, OldestIndex(c))

\* while (this._getCacheSize() > this.maxSize && this.cache.size > 0) this._evictOldest()
RECURSIVE EvictLoop(_, _)
EvictLoop(c, max) ==
  IF _getCacheSize(c) > max /\ Len(c) > 0 THEN EvictLoop(_evictOldest(c), max) ELSE c

KeyIndex(c, key) ==
  IF \E i \in 1..Len(c) : c[i].key = key
  THEN CHOOSE i \in 1..Len(c) : c[i].key = key
  ELSE 0

\* Map.prototype.set: an existing key keeps its place
MapSet(c, entry) ==
  IF KeyIndex(c, entry.key) = 0 THEN Append(c, entry)
  ELSE [c EXCEPT ![KeyIndex(c, entry.key)] = entry]

SeqToSet(c) == {c[i] : i \in 1..Len(c)}

Prompts == {TxtHi, TxtHiVariant, TxtLong}
Responses == {TxtOkay}
TtlChoices == {0, 1}
\* sizeInMB as a fraction num/den of a megabyte
SizeChoices == {[num |-> 500, den |-> 1], [num |-> 300, den |-> 1048576]}

MaxSizeBytes(size) == (size.num * 1024 * 1024) \div size.den

\* ret is << >> for null and <<v>> for a returned value v
NoCall == [op |-> "none", key |-> << >>, ret |-> << >>, evicted |-> << >>, kept |-> << >>]

\* new CacheManager(): maxSize = 500, ttl = 3600
CacheManagerDefault ==
  /\ cmCache = << >>
  /\ cmMaxSize = MaxSizeBytes([num |-> 500, den |-> 1])
  /\ cmTtl = 3600
  /\ cmStats = [hits |-> 0, misses |-> 0, evictions |-> 0]
  /\ cmLast = NoCall
  /\ cmSteps = 0

\* new CacheManager(maxSize, ttl)
CacheManagerInit ==
  /\ cmCache = << >>
  /\ \E size \in SizeChoices : cmMaxSize = MaxSizeBytes(size)
  /\ cmTtl \in TtlChoices
  /\ cmStats = [hits |-> 0, misses |-> 0, evictions |-> 0]
  /\ cmLast = NoCall
  /\ cmSteps = 0

EvictedBy(before, after) ==
  SelectSeq(before, LAMBDA e : e \notin SeqToSet(after))

\* CacheManager.put(prompt, response)
put(prompt, response) ==
  LET key == _generateKey(prompt)
      kept == EvictLoop(cmCache, cmMaxSize)
      entry == [key |-> key,
                prompt |-> Substring0(prompt, 200),
                response |-> response,
                createdAt |-> now,
                expiresAt |-> now + (cmTtl * 1000),
                accessCount |-> 0]
  IN /\ cmSteps < MaxCacheOps
     /\ cmCache' = MapSet(kept, entry)
     /\ cmStats' = [cmStats EXCEPT !.evictions = @ + (Len(cmCache) - Len(kept))]
     /\ cmLast' = [op |-> "put", key |-> key, ret |-> << >>,
                   evicted |-> EvictedBy(cmCache, kept), kept |-> kept]
     /\ cmSteps' = cmSteps + 1
     /\ UNCHANGED <<apiVars, fpVars, smVars, ciVars, appVars, telVars, mmVars, now, cmMaxSize, cmTtl>>

\* CacheManager.get(prompt)
get(prompt) ==
  LET key == _generateKey(prompt)
      i == KeyIndex(cmCache, key)
  IN /\ cmSteps < MaxCacheOps
     /\ cmSteps' = cmSteps + 1
     /\ IF i = 0
        THEN /\ cmStats' = [cmStats EXCEPT !.misses = @ + 1]
             /\ cmCache' = cmCache
             /\ cmLast' = [NoCall EXCEPT !.op = "get", !.key = key]
        ELSE IF now > cmCache[i].expiresAt
        THEN /\ cmCache' = RemoveAt(cmCache, i)
             /\ cmStats' = [cmStats EXCEPT !.misses = @ + 1]
             /\ cmLast' = [NoCall EXCEPT !.op = "get", !.key = key]
        ELSE /\ cmCache' = [cmCache EXCEPT ![i].accessCount = @ + 1]
             /\ cmStats' = [cmStats EXCEPT !.hits = @ + 1]
             /\ cmLast' = [NoCall EXCEPT !.op = "get", !.key = key,
                                         !.ret = <<cmCache'[i]>>]
     /\ UNCHANGED <<apiVars, fpVars, smVars, ciVars, appVars, telVars, mmVars, now, cmMaxSize, cmTtl>>

\* CacheManager.remove(prompt): Map.prototype.delete, true when the key was there
remove(prompt) ==
  LET key == _generateKey(prompt)
      i == KeyIndex(cmCache, key)
  IN /\ cmSteps < MaxCacheOps
     /\ cmSteps' = cmSteps + 1
     /\ cmCache' = IF i = 0 THEN cmCache ELSE RemoveAt(cmCache, i)
     /\ cmLast' = [NoCall EXCEPT !.op = "remove", !.key = key, !.ret = <<i # 0>>]
     /\ UNCHANGED <<apiVars, fpVars, smVars, ciVars, appVars, telVars, mmVars, now, cmMaxSize, cmTtl, cmStats>>

\* CacheManager.purgeExpired: every expired entry is deleted, their number returned
purgeExpired ==
  LET kept == SelectSeq(cmCache, LAMBDA entry : ~(now > entry.expiresAt))
  IN /\ cmSteps < MaxCacheOps
     /\ cmSteps' = cmSteps + 1
     /\ cmCache' = kept
     /\ cmLast' = [NoCall EXCEPT !.op = "purgeExpired", !.ret = <<Len(cmCache) - Len(kept)>>]
     /\ UNCHANGED <<apiVars, fpVars, smVars, ciVars, appVars, telVars, mmVars, now, cmMaxSize, cmTtl, cmStats>>

\* CacheManager.clear
clear ==
  /\ cmSteps < MaxCacheOps
  /\ cmSteps' = cmSteps + 1
  /\ cmCache' = << >>
  /\ cmLast' = [NoCall EXCEPT !.op = "clear", !.ret = <<Len(cmCache)>>]
  /\ UNCHANGED <<apiVars, fpVars, smVars, ciVars, appVars, telVars, mmVars, now, cmMaxSize, cmTtl, cmStats>>

\* CacheManager.setTTL(ttl)
setTTL(ttl) ==
  /\ cmSteps < MaxCacheOps
  /\ cmSteps' = cmSteps + 1
  /\ cmTtl' = ttl
  /\ cmLast' = [NoCall EXCEPT !.op = "setTTL"]
  /\ UNCHANGED <<apiVars, fpVars, smVars, ciVars, appVars, telVars, mmVars, now, cmCache, cmMaxSize, cmStats>>

\* CacheManager.setMaxSize(sizeInMB)
setMaxSize(size) ==
  LET max == MaxSizeBytes(size)
      kept == EvictLoop(cmCache, max)
  IN /\ cmSteps < MaxCacheOps
     /\ cmSteps' = cmSteps + 1
     /\ cmMaxSize' = max
     /\ cmCache' = kept
     /\ cmStats' = [cmStats EXCEPT !.evictions = @ + (Len(cmCache) - Len(kept))]
     /\ cmLast' = [NoCall EXCEPT !.op = "setMaxSize",
                                 !.evicted = EvictedBy(cmCache, kept), !.kept = kept]
     /\ UNCHANGED <<apiVars, fpVars, smVars, ciVars, appVars, telVars, mmVars, now, cmTtl>>

\* time passes between calls
Tick ==
  /\ \E d \in TickSteps : now + d <= MaxTime /\ now' = now + d
  /\ UNCHANGED <<cmVars, apiVars, fpVars, smVars, ciVars, appVars, telVars, mmVars>>

CachePut == \E p \in Prompts, r \in Responses : put(p, r)
CacheGet == \E p \in Prompts : get(p)
CacheRemove == \E p \in Prompts : remove(p)
CacheSetTTL == \E t \in TtlChoices : setTTL(t)
CacheSetMaxSize == \E s \in SizeChoices : setMaxSize(s)


-----------------------------------------------------------------------------
(* APIService: fingerprint, in-service cache, telemetry, inference *)

User == "user"
Assistant == "assistant"

Msg(role, content) == [role |-> role, content |-> content]

CachePrefix == <<"c", "a", "c", "h", "e", "_">>

\* the backwards scan for the last message whose role is 'user' ('' when there is none)
RECURSIVE LastUserMessage(_, _)
LastUserMessage(conv, i) ==
  IF i < 1 THEN TxtEmpty
  ELSE IF conv[i].role = User THEN conv[i].content
  ELSE LastUserMessage(conv, i - 1)

FirstUserMessageMutant(conv) ==
  IF \E i \in 1..Len(conv) : conv[i].role = User
  THEN Substring0(CachePrefix \o Trim(ToLowerCase(
         conv[CHOOSE i \in 1..Len(conv) :
                conv[i].role = User /\ \A j \in 1..(i - 1) : conv[j].role # User].content)), 100)
  ELSE CachePrefix

\* APIService._generateCacheKey
_generateCacheKey(conv) ==
  Substring0(CachePrefix \o Trim(ToLowerCase(LastUserMessage(conv, Len(conv)))), 100)

\* APIService._isCacheExpired
_isCacheExpired(entry, t) == t > entry.expiresAt

MaxTelemetryLog == 1000

\* APIService._logTelemetry
_logTelemetry(tel, action, messageCount, latency, isCached) ==
  LET pushed == Append(tel.requests,
                       [action |-> action, messageCount |-> messageCount,
                        latency |-> latency, isCached |-> isCached])
  IN [tel EXCEPT !.totalRequests = @ + 1,
                 !.totalLatency = @ + latency,
                 !.requests = IF Len(pushed) > MaxTelemetryLog THEN Tail(pushed) ELSE pushed]

\* APIService._checkCache: the entry returned (<<entry>>, or << >> for null) and the
\* telemetry after it; the cache itself is left as it is
_checkCache(cache, tel, conv, t) ==
  LET i == KeyIndex(cache, _generateCacheKey(conv))
  IN IF i # 0 /\ ~_isCacheExpired(cache[i], t)
     THEN [entry |-> <<cache[i]>>,
           telemetry |-> _logTelemetry([tel EXCEPT !.cacheHits = @ + 1], "CACHE_HIT",
                                       Len(conv), cache[i].latency, TRUE)]
     ELSE [entry |-> << >>, telemetry |-> [tel EXCEPT !.cacheMisses = @ + 1]]

\* APIService._cacheResponse
_cacheResponse(cache, conv, response, latency, ttl, t) ==
  MapSet(cache, [key |-> _generateCacheKey(conv),
                 response |-> response,
                 latency |-> latency,
                 timestamp |-> t,
                 expiresAt |-> t + (ttl * 1000),
                 conversationLength |-> Len(conv)])

\* the content of a message that has none, or whose content is not a string
Undefined == <<"undefined">>
IsString(content) == content # Undefined

\* the conversationHistory argument: an array of messages, or a value that is not an
\* array (null or undefined, whose .length cannot be read; a string, which has one)
ArrayOf(conv) == [type |-> "array", items |-> conv, length |-> Len(conv)]
NullInput == [type |-> "null", items |-> << >>, length |-> 0]
NotArray == [type |-> "string", items |-> << >>, length |-> 2]

\* !Array.isArray(conversationHistory) || conversationHistory.length === 0
IsInvalidInput(input) == input.type # "array" \/ input.length = 0

\* _generateCacheKey throws a TypeError: lastUserMessage.toLowerCase is not a function
_generateCacheKeyThrows(conv) == ~IsString(LastUserMessage(conv, Len(conv)))

\* _logTelemetry throws a TypeError: conversationHistory.length of null, or
\* lastUserMessage.substring is not a function
_logTelemetryThrows(input) ==
  \/ input.type = "null"
  \/ input.type = "array" /\ ~IsString(LastUserMessage(input.items, Len(input.items)))

ErrInvalid == "Invalid conversation history format"
ErrRequest == "API Error"
ErrType == "TypeError"

ConvHi == <<Msg(User, TxtHi)>>
ConvHiLater == <<Msg(User, TxtYo), Msg(Assistant, TxtOk), Msg(User, TxtHiVariant)>>
ConvYo == <<Msg(User, TxtYo)>>
ConvEmpty == << >>

\* conversationHistory as handleSendMessage builds it: every message has a string
\* content and the last one is the user's
SendConversations == {ConvHi, ConvHiLater, ConvYo}
InvalidInputs == {ArrayOf(ConvEmpty), NullInput, NotArray}
\* parameters.ttl; 0 stands for a call that gives none
TtlParams == {0, 1}

\* parameters.ttl || 3600
EffectiveTtl(ttlParam) == IF ttlParam = 0 THEN 3600 ELSE ttlParam

NoSend == [kind |-> "none", conv |-> ConvEmpty, isCached |-> FALSE, response |-> TxtEmpty,
           error |-> "none"]

\* new APIService()
APIServiceInit ==
  /\ apiCache = << >>
  /\ apiTelemetry = [totalRequests |-> 0, cacheHits |-> 0, cacheMisses |-> 0,
                     totalLatency |-> 0, requests |-> << >>]
  /\ apiPending = << >>
  /\ apiLast = NoSend
  /\ apiSends = 0
  /\ rpcCalls = 0

\* a catch block that throws the error again without recording it
CatchBlockSilentMutant(tel, input, latency, error) == [telemetry |-> tel, error |-> error]

\* the catch block of sendInferenceRequest: the telemetry after it and the error it
\* throws, which is the caught one unless _logTelemetry itself throws
CatchBlock(tel, input, latency, error) ==
  IF _logTelemetryThrows(input)
  THEN [telemetry |-> tel, error |-> ErrType]
  ELSE [telemetry |-> _logTelemetry(tel, "ERROR", input.length, latency, FALSE),
        error |-> error]

\* sendInferenceRequest with an empty array or a value that is not an array: the
\* validation throws and the catch block runs
sendInvalid(input) ==
  LET caught == CatchBlock(apiTelemetry, input, 0, ErrInvalid)
  IN /\ apiSends < MaxSends
     /\ IsInvalidInput(input)
     /\ apiSends' = apiSends + 1
     /\ apiTelemetry' = caught.telemetry
     /\ apiLast' = [NoSend EXCEPT !.kind = "threw", !.conv = input.items, !.error = caught.error]
     /\ UNCHANGED <<now, cmVars, fpVars, smVars, ciVars, appVars, telVars, mmVars, apiCache, apiPending, rpcCalls>>

\* sendInferenceRequest up to its await: the lookup in the cache is commented out, so
\* every valid conversation goes to POST /inference
sendIssue(conv, ttlParam) ==
  /\ apiSends < MaxSends
  /\ Len(apiPending) < MaxInFlight
  /\ ~IsInvalidInput(ArrayOf(conv))
  /\ apiSends' = apiSends + 1
  /\ rpcCalls' = rpcCalls + 1
  /\ apiPending' = Append(apiPending, [op |-> "inference", conv |-> conv, ttlParam |-> ttlParam,
                                       startTime |-> now])
  /\ apiLast' = [NoSend EXCEPT !.kind = "issued", !.conv = conv]
  /\ UNCHANGED <<now, cmVars, fpVars, smVars, ciVars, appVars, telVars, mmVars, apiCache, apiTelemetry>>

\* the backend answers request i with result = {response, isCached}: the response is
\* cached, logged and returned, unless _cacheResponse throws and the catch block runs
sendResolve(i, response, isCached) ==
  LET req == apiPending[i]
      latency == now - req.startTime
      caught == CatchBlock(apiTelemetry, ArrayOf(req.conv), latency, ErrType)
  IN /\ req.op = "inference"
     /\ apiPending' = RemoveAt(apiPending, i)
     /\ IF _generateCacheKeyThrows(req.conv)
        THEN /\ apiCache' = apiCache
             /\ apiTelemetry' = caught.telemetry
             /\ apiLast' = [NoSend EXCEPT !.kind = "threw", !.conv = req.conv,
                                          !.error = caught.error]
        ELSE /\ apiCache' = _cacheResponse(apiCache, req.conv, response, latency,
                                           EffectiveTtl(req.ttlParam), now)
             /\ apiTelemetry' = _logTelemetry(apiTelemetry, "INFERENCE", Len(req.conv),
                                              latency, isCached)
             /\ apiLast' = [NoSend EXCEPT !.kind = "returned", !.conv = req.conv,
                                          !.isCached = isCached, !.response = response]
     /\ UNCHANGED <<now, cmVars, fpVars, smVars, ciVars, appVars, telVars, mmVars, apiSends, rpcCalls>>

\* request i fails (network error or a response that is not ok): the catch block runs
sendReject(i) ==
  LET req == apiPending[i]
      caught == CatchBlock(apiTelemetry, ArrayOf(req.conv), now - req.startTime, ErrRequest)
  IN /\ req.op = "inference"
     /\ apiPending' = RemoveAt(apiPending, i)
     /\ apiTelemetry' = caught.telemetry
     /\ apiLast' = [NoSend EXCEPT !.kind = "threw", !.conv = req.conv, !.error = caught.error]
     /\ UNCHANGED <<now, cmVars, fpVars, smVars, ciVars, appVars, telVars, mmVars, apiCache, apiSends, rpcCalls>>

\* APIService._checkCache(conversationHistory) called on its own: the lookup that
\* sendInferenceRequest has commented out
checkCache(conv) ==
  LET looked == _checkCache(apiCache, apiTelemetry, conv, now)
  IN /\ apiSends < MaxSends
     /\ apiSends' = apiSends + 1
     /\ apiTelemetry' = looked.telemetry
     /\ apiLast' = IF looked.entry = << >>
                   THEN [NoSend EXCEPT !.kind = "miss", !.conv = conv]
                   ELSE [NoSend EXCEPT !.kind = "hit", !.conv = conv, !.isCached = TRUE,
                                       !.response = looked.entry[1].response]
     /\ UNCHANGED <<now, cmVars, fpVars, smVars, ciVars, appVars, telVars, mmVars, apiCache, apiPending, rpcCalls>>

\* APIService.clearAuth: the token is dropped and the cache emptied
clearAuth(cache) == << >>

\* clearAuth() called on its own
clearAuthCall ==
  /\ apiSends < MaxSends
  /\ apiSends' = apiSends + 1
  /\ apiCache' = clearAuth(apiCache)
  /\ apiLast' = [NoSend EXCEPT !.kind = "clearAuth"]
  /\ UNCHANGED <<now, cmVars, fpVars, smVars, ciVars, appVars, telVars, mmVars, apiTelemetry, apiPending, rpcCalls>>

\* the methods of APIService that await one request and then change the cache or
\* the telemetry: logout, updateCacheConfig, clearCache, reloadModel
AdminOps == {"logout", "updateCacheConfig", "clearCache", "reloadModel"}

\* logout, updateCacheConfig(config), clearCache() or reloadModel(modelName) up to
\* its await of the request
adminIssue(op) ==
  /\ apiSends < MaxSends
  /\ Len(apiPending) < MaxInFlight
  /\ apiSends' = apiSends + 1
  /\ apiPending' = Append(apiPending, [op |-> op, conv |-> ConvEmpty, ttlParam |-> 0,
                                       startTime |-> now])
  /\ apiLast' = [NoSend EXCEPT !.kind = "issued"]
  /\ UNCHANGED <<now, cmVars, fpVars, smVars, ciVars, appVars, telVars, mmVars, apiCache, apiTelemetry, rpcCalls>>

\* the cache after the method's request was answered (ok) or failed: logout calls
\* clearAuth either way, clearCache empties the cache on success
AdminCache(op, cache, ok) ==
  IF op = "logout" \/ (op = "clearCache" /\ ok) THEN clearAuth(cache) ELSE cache

\* the telemetry after it: on success clearCache resets the hit and miss counters
\* and logs CLEAR_CACHE, updateCacheConfig logs UPDATE_CACHE_CONFIG, reloadModel
\* logs RELOAD_MODEL; logout logs nothing
AdminTelemetry(op, tel, ok) ==
  IF ~ok \/ op = "logout" THEN tel
  ELSE IF op = "clearCache"
  THEN _logTelemetry([tel EXCEPT !.cacheHits = 0, !.cacheMisses = 0], "CLEAR_CACHE", 0, 0, FALSE)
  ELSE IF op = "updateCacheConfig" THEN _logTelemetry(tel, "UPDATE_CACHE_CONFIG", 0, 0, FALSE)
  ELSE _logTelemetry(tel, "RELOAD_MODEL", 0, 0, FALSE)

\* the method after its await: logout swallows a failure, the other three log it
\* and throw it again
adminDone(i, ok) ==
  LET req == apiPending[i]
  IN /\ req.op \in AdminOps
     /\ apiPending' = RemoveAt(apiPending, i)
     /\ apiCache' = AdminCache(req.op, apiCache, ok)
     /\ apiTelemetry' = AdminTelemetry(req.op, apiTelemetry, ok)
     /\ apiLast' = IF ok \/ req.op = "logout" THEN [NoSend EXCEPT !.kind = req.op]
                   ELSE [NoSend EXCEPT !.kind = "threw", !.error = ErrRequest]
     /\ UNCHANGED <<now, cmVars, fpVars, smVars, ciVars, appVars, telVars, mmVars, apiSends, rpcCalls>>

AdminIssue == \E op \in AdminOps : adminIssue(op)
AdminDone == \E i \in 1..Len(apiPending), ok \in BOOLEAN : adminDone(i, ok)

CheckCache == \E conv \in SendConversations : ~_generateCacheKeyThrows(conv) /\ checkCache(conv)

SendInvalid == \E input \in InvalidInputs : sendInvalid(input)
SendIssue == \E conv \in SendConversations, ttlParam \in TtlParams : sendIssue(conv, ttlParam)
SendResolve == \E i \in 1..Len(apiPending), isCached \in BOOLEAN : sendResolve(i, TxtOk, isCached)
SendReject == \E i \in 1..Len(apiPending) : sendReject(i)

-----------------------------------------------------------------------------
(* The fingerprint as a function: _generateCacheKey applied to two conversations *)

Contents == {TxtHi, TxtHiVariant, TxtYo}
Messages == {Msg(role, content) : role \in {User, Assistant}, content \in Contents}

RECURSIVE ConversationsOfLen(_)
ConversationsOfLen(n) ==
  IF n = 0 THEN {<< >>}
  ELSE {Append(c, m) : c \in ConversationsOfLen(n - 1), m \in Messages}

Conversations == UNION {ConversationsOfLen(n) : n \in 0..MaxConvLen}

FingerprintIdle ==
  /\ fpConvA = ConvEmpty /\ fpConvB = ConvEmpty
  /\ fpKeyA = Null /\ fpKeyB = Null

FingerprintInputs ==
  /\ fpConvA \in Conversations /\ fpConvB \in Conversations
  /\ fpKeyA = Null /\ fpKeyB = Null

FingerprintA ==
  /\ fpKeyA = Null
  /\ fpKeyA' = _generateCacheKey(fpConvA)
  /\ UNCHANGED <<now, cmVars, apiVars, smVars, ciVars, appVars, telVars, mmVars, fpConvA, fpConvB, fpKeyB>>

FingerprintB ==
  /\ fpKeyB = Null
  /\ fpKeyB' = _generateCacheKey(fpConvB)
  /\ UNCHANGED <<now, cmVars, apiVars, smVars, ciVars, appVars, telVars, mmVars, fpConvA, fpConvB, fpKeyA>>

-----------------------------------------------------------------------------
(* SessionManager, its localStorage copy and the session backend *)

GuestPrefix == "guest_session_"
RemotePrefix == "session_"

\* the messages ChatInterface hands to addMessageLocally: the user's (timestamp a
\* number) and the assistant's (timestamp an ISO string)
MsgUser == [type |-> "USER", content |-> TxtHi, timestamp |-> "number"]
MsgAssistant == [type |-> "ASSISTANT", content |-> TxtOk, timestamp |-> "iso-string"]
StoreMessages == {MsgUser, MsgAssistant}

\* a session object; loaded is FALSE while its messages property is undefined
Session(id, loaded, messages) == [sessionId |-> id, loaded |-> loaded, messages |-> messages]

SessionIds(sessions) == {sessions[i].sessionId : i \in 1..Len(sessions)}

SessionIndex(sessions, id) ==
  IF \E i \in 1..Len(sessions) : sessions[i].sessionId = id
  THEN CHOOSE i \in 1..Len(sessions) : sessions[i].sessionId = id
  ELSE 0

\* this.sessions.set(session.sessionId, session)
SessionsSet(sessions, session) ==
  IF SessionIndex(sessions, session.sessionId) = 0 THEN Append(sessions, session)
  ELSE [sessions EXCEPT ![SessionIndex(sessions, session.sessionId)] = session]

\* this.sessions.delete(sessionId)
SessionsDelete(sessions, id) ==
  IF SessionIndex(sessions, id) = 0 THEN sessions
  ELSE RemoveAt(sessions, SessionIndex(sessions, id))

\* this.sessions.clear(); list.forEach(session => this.sessions.set(session.sessionId, session))
RECURSIVE SessionsFromList(_, _, _)
SessionsFromList(list, i, acc) ==
  IF i > Len(list) THEN acc
  ELSE SessionsFromList(list, i + 1, SessionsSet(acc, list[i]))

\* SessionManager.getAllSessions: Array.from(this.sessions.values())
getAllSessions(sessions) == [i \in 1..Len(sessions) |-> sessions[i]]

\* JSON.stringify of a message: a Date becomes its ISO string, the rest is kept
JsonOfMessage(m) ==
  [m EXCEPT !.timestamp = IF @ = "date" THEN "iso-string" ELSE @]

\* JSON.stringify of the session array: a property that is undefined is left out
JsonStringify(list) ==
  [i \in 1..Len(list) |->
     IF list[i].loaded
     THEN [sessionId |-> list[i].sessionId,
           messages |-> <<[j \in 1..Len(list[i].messages) |-> JsonOfMessage(list[i].messages[j])]>>]
     ELSE [sessionId |-> list[i].sessionId, messages |-> << >>]]

\* JSON.parse of a stored session array
JsonParse(json) ==
  [i \in 1..Len(json) |->
     IF json[i].messages = << >>
     THEN Session(json[i].sessionId, FALSE, << >>)
     ELSE Session(json[i].sessionId, TRUE, json[i].messages[1])]

\* localStorage without the key 'guestSessions'
StorageAbsent == [present |-> FALSE, value |-> << >>]
Stored(json) == [present |-> TRUE, value |-> json]

\* SessionManager._loadGuestSessions: the map after it and the array it returns
_loadGuestSessions(sessions, storage) ==
  IF storage.present
  THEN [sessions |-> SessionsFromList(JsonParse(storage.value), 1, << >>),
        returned |-> JsonParse(storage.value),
        replaced |-> TRUE]
  ELSE [sessions |-> sessions, returned |-> << >>, replaced |-> FALSE]

SaveNothingMutant(storage, sessions, isGuest) == storage

SaveAlwaysMutant(storage, sessions, isGuest) == Stored(JsonStringify(getAllSessions(sessions)))

\* SessionManager._saveGuestSessions: the storage after it
_saveGuestSessions(storage, sessions, isGuest) ==
  IF ~isGuest THEN storage ELSE Stored(JsonStringify(getAllSessions(sessions)))

GuestId(n) == <<GuestPrefix, n>>
RemoteId(n) == <<RemotePrefix, n>>
MissingId == RemoteId(0)

\* a session as the backend holds it
BackendSession(n, messages) == [sessionId |-> RemoteId(n), messages |-> messages]

\* a session as a backend response carries it, with or without its messages
BackendView(b, withMessages) ==
  Session(b.sessionId, withMessages, IF withMessages THEN b.messages ELSE << >>)

BackendList(backend, withMessages) ==
  [i \in 1..Len(backend) |-> BackendView(backend[i], withMessages)]

BackendChoices ==
  { << >>,
    <<BackendSession(1, <<MsgUser, MsgAssistant>>), BackendSession(2, << >>)>> }

StorageChoices ==
  { StorageAbsent,
    Stored(JsonStringify(<<Session(GuestId(0), TRUE, <<MsgUser>>)>>)) }

\* a call suspended at its await, with the answer the backend gave
Request(op, id, ok, sessions, messages, captured) ==
  [op |-> op, id |-> id, ok |-> ok, sessions |-> sessions, messages |-> messages,
   captured |-> captured]

\* the session objects with these ids leave the map: a suspended getMessages that
\* captured one of them no longer writes to the map
Detach(pending, ids) ==
  [i \in 1..Len(pending) |->
     IF pending[i].op = "getMessages" /\ pending[i].id \in ids
     THEN [pending[i] EXCEPT !.captured = FALSE]
     ELSE pending[i]]

\* threw is TRUE when the call ended by throwing, FALSE when it returned a value
NoOp == [op |-> "none", id |-> << >>, ok |-> FALSE, held |-> FALSE, reported |-> << >>,
         threw |-> FALSE]
Outcome(op, id, ok, held) == [NoOp EXCEPT !.op = op, !.id = id, !.ok = ok, !.held = held]

\* new SessionManager(apiService), of either class, with the storage and the backend
\* as earlier page loads left them
SessionManagerInit ==
  /\ smGuestCapable \in BOOLEAN
  /\ smSessions = << >>
  /\ smIsGuest = FALSE
  /\ smPending = << >>
  /\ smLast = NoOp
  /\ smOps = 0
  /\ smNonce = 1
  /\ lsGuestSessions \in StorageChoices
  /\ beSessions \in BackendChoices
  /\ beNext = 3
  /\ beWithMessages \in BOOLEAN

\* the entry APIService.createSession, deleteSession and clearSessionHistory log once
\* their request has succeeded: this._logTelemetry(action, [], text, 0, false)
SessionTelemetry(tel, action) == _logTelemetry(tel, action, 0, 0, FALSE)

CanCall == smOps < MaxSessionOps
CanAwait == CanCall /\ Len(smPending) < MaxAwaiting

\* initialize(userId, true): _loadGuestSessions
initializeGuest ==
  LET loaded == _loadGuestSessions(smSessions, lsGuestSessions)
  IN /\ CanCall /\ smGuestCapable
     /\ smOps' = smOps + 1
     /\ smIsGuest' = TRUE
     /\ smSessions' = loaded.sessions
     /\ smPending' = IF loaded.replaced THEN Detach(smPending, SessionIds(smSessions)) ELSE smPending
     /\ smLast' = [Outcome("initialize", << >>, TRUE, FALSE) EXCEPT !.reported = loaded.returned]
     /\ UNCHANGED <<otherVars, smGuestCapable, smNonce, lsGuestSessions, beSessions, beNext, beWithMessages>>

\* initialize(userId, false) up to its await; APIService.getUserSessions answers [] when
\* the request fails
initializeIssue(ok) ==
  /\ CanAwait
  /\ smOps' = smOps + 1
  /\ smIsGuest' = FALSE
  /\ smPending' = Append(smPending,
                         Request("initialize", << >>, ok,
                                 IF ok THEN BackendList(beSessions, beWithMessages) ELSE << >>,
                                 << >>, FALSE))
  /\ UNCHANGED <<otherVars, smGuestCapable, smSessions, smLast, smNonce, lsGuestSessions,
                 beSessions, beNext, beWithMessages>>

\* initialize(userId, false) after its await
initializeDone(i) ==
  /\ smPending[i].op = "initialize"
  /\ smSessions' = SessionsFromList(smPending[i].sessions, 1, << >>)
  /\ smPending' = Detach(RemoveAt(smPending, i), SessionIds(smSessions))
  /\ smLast' = [Outcome("initialize", << >>, TRUE, FALSE) EXCEPT !.reported = smPending[i].sessions]
  /\ UNCHANGED <<otherVars, smGuestCapable, smIsGuest, smOps, smNonce, lsGuestSessions,
                 beSessions, beNext, beWithMessages>>

ClearThenCreateMutant(sessions, session) == <<session>>

\* the map after createSession has added the new session
CreateLocally(sessions, session) == SessionsSet(sessions, session)

\* createSession(userId) in guest mode
createSessionGuest ==
  LET session == Session(GuestId(smNonce), TRUE, << >>)
  IN /\ CanCall /\ smGuestCapable /\ smIsGuest
     /\ smNonce < MaxCreates + 1
     /\ smOps' = smOps + 1
     /\ smNonce' = smNonce + 1
     /\ smSessions' = CreateLocally(smSessions, session)
     /\ lsGuestSessions' = _saveGuestSessions(lsGuestSessions, smSessions', smIsGuest)
     /\ smLast' = Outcome("createSession", session.sessionId, TRUE, FALSE)
     /\ UNCHANGED <<otherVars, smGuestCapable, smIsGuest, smPending, beSessions, beNext, beWithMessages>>

\* createSession(userId) up to its await: the backend-only class clears the map first
createSessionIssue(ok) ==
  LET created == BackendSession(beNext, << >>)
  IN /\ CanAwait /\ ~smIsGuest
     /\ beNext < 3 + MaxCreates
     /\ smOps' = smOps + 1
     /\ smSessions' = IF smGuestCapable THEN smSessions ELSE << >>
     /\ beSessions' = IF ok THEN Append(beSessions, created) ELSE beSessions
     /\ beNext' = IF ok THEN beNext + 1 ELSE beNext
     /\ smPending' = Append(IF smGuestCapable THEN smPending
                            ELSE Detach(smPending, SessionIds(smSessions)),
                            Request("createSession", created.sessionId, ok,
                                    IF ok THEN <<BackendView(created, beWithMessages)>> ELSE << >>,
                                    << >>, FALSE))
     /\ UNCHANGED <<otherVars, smGuestCapable, smIsGuest, smLast, smNonce, lsGuestSessions, beWithMessages>>

\* createSession(userId) after its await: the session is added, or the error rethrown.
\* sessions.set puts a new object under the id, so a session the map already held
\* under it (one that came in through refreshSessions meanwhile) leaves the map
createSessionDone(i) ==
  LET req == smPending[i]
  IN /\ req.op = "createSession"
     /\ smSessions' = IF req.ok THEN CreateLocally(smSessions, req.sessions[1]) ELSE smSessions
     /\ apiTelemetry' = IF req.ok THEN SessionTelemetry(apiTelemetry, "CREATE_SESSION") ELSE apiTelemetry
     /\ smPending' = IF req.ok THEN Detach(RemoveAt(smPending, i), {req.sessions[1].sessionId})
                     ELSE RemoveAt(smPending, i)
     /\ smLast' = [Outcome("createSession", req.id, req.ok, FALSE) EXCEPT !.threw = ~req.ok]
     /\ UNCHANGED <<quietVars, smGuestCapable, smIsGuest, smOps, smNonce, lsGuestSessions,
                    beSessions, beNext, beWithMessages>>

\* getSession(sessionId) answered without the backend: a session of the map, or null
\* in guest mode
getSessionLocal(id) ==
  /\ CanCall
  /\ SessionIndex(smSessions, id) # 0 \/ smIsGuest
  /\ smOps' = smOps + 1
  /\ smLast' = [Outcome("getSession", id, SessionIndex(smSessions, id) # 0,
                        SessionIndex(smSessions, id) # 0)
                  EXCEPT !.reported = IF SessionIndex(smSessions, id) # 0
                                      THEN <<smSessions[SessionIndex(smSessions, id)]>>
                                      ELSE << >>]
  /\ UNCHANGED <<otherVars, smGuestCapable, smSessions, smIsGuest, smPending, smNonce,
                 lsGuestSessions, beSessions, beNext, beWithMessages>>

\* what GET /sessions/:id answers: the session, or an error when there is none
BackendGet(backend, id, withMessages) ==
  LET found == SelectSeq(backend, LAMBDA b : b.sessionId = id)
  IN IF found = << >> THEN << >> ELSE <<BackendView(found[1], withMessages)>>

\* getSession(sessionId) up to its await, on a miss outside guest mode
getSessionIssue(id, ok) ==
  /\ CanAwait
  /\ SessionIndex(smSessions, id) = 0 /\ ~smIsGuest
  /\ smOps' = smOps + 1
  /\ smPending' = Append(smPending,
                         Request("getSession", id, ok /\ BackendGet(beSessions, id, beWithMessages) # << >>,
                                 IF ok THEN BackendGet(beSessions, id, beWithMessages) ELSE << >>,
                                 << >>, FALSE))
  /\ UNCHANGED <<otherVars, smGuestCapable, smSessions, smIsGuest, smLast, smNonce,
                 lsGuestSessions, beSessions, beNext, beWithMessages>>

\* getSession(sessionId) after its await: the session is cached, or null returned
getSessionDone(i) ==
  LET req == smPending[i]
  IN /\ req.op = "getSession"
     /\ smSessions' = IF req.ok THEN SessionsSet(smSessions, req.sessions[1]) ELSE smSessions
     /\ smPending' = IF req.ok THEN Detach(RemoveAt(smPending, i), {req.id})
                     ELSE RemoveAt(smPending, i)
     /\ smLast' = [Outcome("getSession", req.id, req.ok, FALSE) EXCEPT !.reported = req.sessions]
     /\ UNCHANGED <<otherVars, smGuestCapable, smIsGuest, smOps, smNonce, lsGuestSessions,
                    beSessions, beNext, beWithMessages>>

\* refreshSessions(userId) in guest mode: the current sessions
refreshSessionsGuest ==
  /\ CanCall /\ smIsGuest
  /\ smOps' = smOps + 1
  /\ smLast' = [Outcome("refreshSessions", << >>, TRUE, FALSE)
                  EXCEPT !.reported = getAllSessions(smSessions)]
  /\ UNCHANGED <<otherVars, smGuestCapable, smSessions, smIsGuest, smPending, smNonce,
                 lsGuestSessions, beSessions, beNext, beWithMessages>>

\* refreshSessions(userId) up to its await
refreshSessionsIssue(ok) ==
  /\ CanAwait /\ ~smIsGuest
  /\ smOps' = smOps + 1
  /\ smPending' = Append(smPending,
                         Request("refreshSessions", << >>, ok,
                                 IF ok THEN BackendList(beSessions, beWithMessages) ELSE << >>,
                                 << >>, FALSE))
  /\ UNCHANGED <<otherVars, smGuestCapable, smSessions, smIsGuest, smLast, smNonce,
                 lsGuestSessions, beSessions, beNext, beWithMessages>>

\* refreshSessions(userId) after its await: getUserSessions has answered (with [] when
\* the request failed) and the map is replaced
refreshSessionsDone(i) ==
  /\ smPending[i].op = "refreshSessions"
  /\ smSessions' = SessionsFromList(smPending[i].sessions, 1, << >>)
  /\ smPending' = Detach(RemoveAt(smPending, i), SessionIds(smSessions))
  /\ smLast' = [Outcome("refreshSessions", << >>, smPending[i].ok, FALSE)
                  EXCEPT !.reported = smPending[i].sessions]
  /\ UNCHANGED <<otherVars, smGuestCapable, smIsGuest, smOps, smNonce, lsGuestSessions,
                 beSessions, beNext, beWithMessages>>

\* the session after session.messages = [...session.messages, message]
WithMessage(session, message) ==
  [session EXCEPT !.loaded = TRUE,
                  !.messages = Append(IF session.loaded THEN session.messages ELSE << >>, message)]

\* addMessageLocally(sessionId, message)
addMessageLocally(id, message) ==
  LET i == SessionIndex(smSessions, id)
  IN /\ CanCall
     /\ smOps' = smOps + 1
     /\ i # 0 => Len(smSessions[i].messages) < MaxMessages
     /\ smSessions' = IF i = 0 THEN smSessions
                      ELSE [smSessions EXCEPT ![i] = WithMessage(smSessions[i], message)]
     /\ lsGuestSessions' = IF i = 0 THEN lsGuestSessions
                           ELSE _saveGuestSessions(lsGuestSessions, smSessions', smIsGuest)
     /\ smLast' = Outcome("addMessageLocally", id, i # 0, i # 0)
     /\ UNCHANGED <<otherVars, smGuestCapable, smIsGuest, smPending, smNonce, beSessions, beNext, beWithMessages>>

\* what getMessages returns without the backend: <<messages>> for a session whose
\* messages are loaded, <<[]>> in guest mode, << >> when the backend must be asked
getMessagesCached(sessions, isGuest, id) ==
  LET i == SessionIndex(sessions, id)
  IN IF i # 0 /\ sessions[i].loaded THEN <<sessions[i].messages>>
     ELSE IF isGuest THEN << << >> >>
     ELSE << >>

\* getMessages(userId, sessionId) answered from the map, or [] in guest mode
getMessagesLocal(id) ==
  /\ CanCall
  /\ getMessagesCached(smSessions, smIsGuest, id) # << >>
  /\ smOps' = smOps + 1
  /\ smLast' = [Outcome("getMessages", id, TRUE, SessionIndex(smSessions, id) # 0)
                  EXCEPT !.reported = getMessagesCached(smSessions, smIsGuest, id)[1]]
  /\ UNCHANGED <<otherVars, smGuestCapable, smSessions, smIsGuest, smPending, smNonce,
                 lsGuestSessions, beSessions, beNext, beWithMessages>>

BackendMessages(backend, id) ==
  LET found == SelectSeq(backend, LAMBDA b : b.sessionId = id)
  IN IF found = << >> THEN << >> ELSE found[1].messages

\* getMessages(userId, sessionId) up to its await; session is the object it captured
getMessagesIssue(id, ok) ==
  /\ CanAwait
  /\ getMessagesCached(smSessions, smIsGuest, id) = << >>
  /\ smOps' = smOps + 1
  /\ smPending' = Append(smPending,
                         Request("getMessages", id, ok, << >>,
                                 IF ok THEN BackendMessages(beSessions, id) ELSE << >>,
                                 SessionIndex(smSessions, id) # 0))
  /\ UNCHANGED <<otherVars, smGuestCapable, smSessions, smIsGuest, smLast, smNonce,
                 lsGuestSessions, beSessions, beNext, beWithMessages>>

\* getMessages(userId, sessionId) after its await: the captured session gets the
\* messages, or [] is returned on an error
getMessagesDone(i) ==
  LET req == smPending[i]
      k == SessionIndex(smSessions, req.id)
  IN /\ req.op = "getMessages"
     /\ smSessions' = IF req.ok /\ req.captured /\ k # 0
                      THEN [smSessions EXCEPT ![k].loaded = TRUE, ![k].messages = req.messages]
                      ELSE smSessions
     /\ smPending' = RemoveAt(smPending, i)
     /\ smLast' = [Outcome("getMessages", req.id, req.ok, k # 0) EXCEPT !.reported = req.messages]
     /\ UNCHANGED <<otherVars, smGuestCapable, smIsGuest, smOps, smNonce, lsGuestSessions,
                    beSessions, beNext, beWithMessages>>

\* the map after session.messages = [] on the session with this id, if it is held
WithoutMessages(sessions, id) ==
  IF SessionIndex(sessions, id) = 0 THEN sessions
  ELSE [sessions EXCEPT ![SessionIndex(sessions, id)].loaded = TRUE,
                        ![SessionIndex(sessions, id)].messages = << >>]

\* clearHistory(sessionId) in guest mode
clearHistoryGuest(id) ==
  /\ CanCall /\ smGuestCapable /\ smIsGuest
  /\ smOps' = smOps + 1
  /\ smSessions' = WithoutMessages(smSessions, id)
  /\ lsGuestSessions' = IF SessionIndex(smSessions, id) = 0 THEN lsGuestSessions
                        ELSE _saveGuestSessions(lsGuestSessions, smSessions', smIsGuest)
  /\ smLast' = Outcome("clearHistory", id, TRUE, SessionIndex(smSessions, id) # 0)
  /\ UNCHANGED <<otherVars, smGuestCapable, smIsGuest, smPending, smNonce, beSessions, beNext, beWithMessages>>

BackendClear(backend, id) ==
  [i \in 1..Len(backend) |->
     IF backend[i].sessionId = id THEN [backend[i] EXCEPT !.messages = << >>] ELSE backend[i]]

\* clearHistory(sessionId) up to its await
clearHistoryIssue(id, ok) ==
  /\ CanAwait /\ ~smIsGuest
  /\ smOps' = smOps + 1
  /\ beSessions' = IF ok THEN BackendClear(beSessions, id) ELSE beSessions
  /\ smPending' = Append(smPending, Request("clearHistory", id, ok, << >>, << >>, FALSE))
  /\ UNCHANGED <<otherVars, smGuestCapable, smSessions, smIsGuest, smLast, smNonce,
                 lsGuestSessions, beNext, beWithMessages>>

\* clearHistory(sessionId) after its await: true with the local messages emptied, or
\* false on an error
clearHistoryDone(i) ==
  LET req == smPending[i]
  IN /\ req.op = "clearHistory"
     /\ smSessions' = IF req.ok THEN WithoutMessages(smSessions, req.id) ELSE smSessions
     /\ apiTelemetry' = IF req.ok THEN SessionTelemetry(apiTelemetry, "CLEAR_HISTORY") ELSE apiTelemetry
     /\ smPending' = RemoveAt(smPending, i)
     /\ smLast' = Outcome("clearHistory", req.id, req.ok, SessionIndex(smSessions, req.id) # 0)
     /\ UNCHANGED <<quietVars, smGuestCapable, smIsGuest, smOps, smNonce, lsGuestSessions,
                    beSessions, beNext, beWithMessages>>

\* the map after the delete of deleteSession
DeleteLocally(sessions, id) == SessionsDelete(sessions, id)

\* deleteSession(userId, sessionId) in guest mode
deleteSessionGuest(id) ==
  /\ CanCall /\ smGuestCapable /\ smIsGuest
  /\ smOps' = smOps + 1
  /\ smSessions' = DeleteLocally(smSessions, id)
  /\ smPending' = Detach(smPending, {id})
  /\ lsGuestSessions' = _saveGuestSessions(lsGuestSessions, smSessions', smIsGuest)
  /\ smLast' = Outcome("deleteSession", id, TRUE, SessionIndex(smSessions, id) # 0)
  /\ UNCHANGED <<otherVars, smGuestCapable, smIsGuest, smNonce, beSessions, beNext, beWithMessages>>

BackendDelete(backend, id) == SelectSeq(backend, LAMBDA b : b.sessionId # id)

\* deleteSession(userId, sessionId) up to its await
deleteSessionIssue(id, ok) ==
  /\ CanAwait /\ ~smIsGuest
  /\ smOps' = smOps + 1
  /\ beSessions' = IF ok THEN BackendDelete(beSessions, id) ELSE beSessions
  /\ smPending' = Append(smPending, Request("deleteSession", id, ok, << >>, << >>, FALSE))
  /\ UNCHANGED <<otherVars, smGuestCapable, smSessions, smIsGuest, smLast, smNonce,
                 lsGuestSessions, beNext, beWithMessages>>

\* deleteSession(userId, sessionId) after its await: true with the session removed, or
\* false on an error
deleteSessionDone(i) ==
  LET req == smPending[i]
  IN /\ req.op = "deleteSession"
     /\ smSessions' = IF req.ok THEN DeleteLocally(smSessions, req.id) ELSE smSessions
     /\ apiTelemetry' = IF req.ok THEN SessionTelemetry(apiTelemetry, "DELETE_SESSION") ELSE apiTelemetry
     /\ smPending' = IF req.ok THEN Detach(RemoveAt(smPending, i), {req.id})
                     ELSE RemoveAt(smPending, i)
     /\ smLast' = Outcome("deleteSession", req.id, req.ok, SessionIndex(smSessions, req.id) # 0)
     /\ UNCHANGED <<quietVars, smGuestCapable, smIsGuest, smOps, smNonce, lsGuestSessions,
                    beSessions, beNext, beWithMessages>>

\* clearCache()
clearCache ==
  /\ CanCall
  /\ smOps' = smOps + 1
  /\ smSessions' = << >>
  /\ smPending' = Detach(smPending, SessionIds(smSessions))
  /\ lsGuestSessions' = IF smGuestCapable /\ smIsGuest THEN StorageAbsent ELSE lsGuestSessions
  /\ smLast' = Outcome("clearCache", << >>, TRUE, FALSE)
  /\ UNCHANGED <<otherVars, smGuestCapable, smIsGuest, smNonce, beSessions, beNext, beWithMessages>>

\* the session ids a caller may name: those held and one that is not
CallIds == SessionIds(smSessions) \cup {MissingId}

\* the ids getSession may be asked for: also those only the backend holds
LookupIds == CallIds \cup {beSessions[i].sessionId : i \in 1..Len(beSessions)}

Awaiting == 1..Len(smPending)

InitializeIssue == \E ok \in BOOLEAN : initializeIssue(ok)
InitializeDone == \E i \in Awaiting : initializeDone(i)
CreateSessionIssue == \E ok \in BOOLEAN : createSessionIssue(ok)
CreateSessionDone == \E i \in Awaiting : createSessionDone(i)
GetSessionLocal == \E id \in LookupIds : getSessionLocal(id)
GetSessionIssue == \E id \in LookupIds, ok \in BOOLEAN : getSessionIssue(id, ok)
GetSessionDone == \E i \in Awaiting : getSessionDone(i)
RefreshSessionsIssue == \E ok \in BOOLEAN : refreshSessionsIssue(ok)
RefreshSessionsDone == \E i \in Awaiting : refreshSessionsDone(i)
AddMessageLocally == \E id \in CallIds, message \in StoreMessages : addMessageLocally(id, message)
GetMessagesLocal == \E id \in CallIds : getMessagesLocal(id)
GetMessagesIssue == \E id \in CallIds, ok \in BOOLEAN : getMessagesIssue(id, ok)
GetMessagesDone == \E i \in Awaiting : getMessagesDone(i)
ClearHistoryGuest == \E id \in CallIds : clearHistoryGuest(id)
ClearHistoryIssue == \E id \in CallIds, ok \in BOOLEAN : clearHistoryIssue(id, ok)
ClearHistoryDone == \E i \in Awaiting : clearHistoryDone(i)
DeleteSessionGuest == \E id \in CallIds : deleteSessionGuest(id)
DeleteSessionIssue == \E id \in CallIds, ok \in BOOLEAN : deleteSessionIssue(id, ok)
DeleteSessionDone == \E i \in Awaiting : deleteSessionDone(i)

-----------------------------------------------------------------------------
(* ChatInterface: its state, the handlers of its buttons and form, and the    *)
(* SessionManager and APIService calls they make.  A handler runs up to its   *)
(* await and is suspended there as a task; it goes on when the call it awaits *)
(* has answered.  A call that needs no request (guest mode, messages already  *)
(* in the map) answers before any other event can be handled.                 *)

MaxChatOps == 3
MaxChatTasks == 2

NoSession == << >>
TxtError == <<"E", "r", "r", "o", "r">>

\* useState([]), useState(false), useState([]), useState(null)
ChatInterfaceIdle ==
  /\ ciCurrent = NoSession
  /\ ciSessions = << >>
  /\ ciMessages = << >>
  /\ ciLoading = FALSE
  /\ ciTasks = << >>
  /\ ciOps = 0

\* the state the handlers read and write: SessionManager with its storage and backend,
\* APIService, and the component's own state
Chat ==
  [sessions |-> smSessions, storage |-> lsGuestSessions, backend |-> beSessions,
   next |-> beNext, nonce |-> smNonce,
   cache |-> apiCache, telemetry |-> apiTelemetry, rpc |-> rpcCalls,
   current |-> ciCurrent, list |-> ciSessions, messages |-> ciMessages,
   loading |-> ciLoading, tasks |-> ciTasks]

\* a handler suspended at its await: the call it awaits (op, id), whether that call
\* answers without a request (sync, with its result), and the sessions,
\* currentSessionId and conversation of the render the handler was created in
Task(op, id) ==
  [op |-> op, id |-> id, sync |-> FALSE, result |-> << >>, captured |-> FALSE,
   list |-> << >>, current |-> NoSession, conv |-> << >>, startTime |-> 0]

Suspend(st, task) == [st EXCEPT !.tasks = Append(@, task)]

\* the userMessage, assistantMessage and errorMessage objects of handleSendMessage
ChatUser(text) == [type |-> "USER", content |-> text, timestamp |-> "number"]
ChatAssistant(response) == [type |-> "ASSISTANT", content |-> response, timestamp |-> "iso-string"]
ChatError == [type |-> "ASSISTANT", content |-> TxtError, timestamp |-> "date"]

\* sessionManager.addMessageLocally(sessionId, message)
AddLocally(st, id, message) ==
  LET i == SessionIndex(st.sessions, id)
      sessions == [st.sessions EXCEPT ![i] = WithMessage(@, message)]
  IN IF i = 0 THEN st
     ELSE [st EXCEPT !.sessions = sessions,
                     !.storage = _saveGuestSessions(@, sessions, smIsGuest)]

\* loadSessionMessages(sessionId) up to its await of sessionManager.getMessages
loadSessionMessages(st, id) ==
  LET cached == getMessagesCached(st.sessions, smIsGuest, id)
  IN Suspend(st, IF cached # << >>
                 THEN [Task("getMessages", id) EXCEPT !.sync = TRUE, !.result = cached[1]]
                 ELSE [Task("getMessages", id)
                         EXCEPT !.captured = SessionIndex(st.sessions, id) # 0])

\* loadSessionMessages after its await: getMessages has stored what the backend sent
\* in the session it captured, and its result (or [] on a failure) is displayed
loadSessionMessagesDone(st, task, ok) ==
  LET k == SessionIndex(st.sessions, task.id)
      fetched == IF ok THEN BackendMessages(st.backend, task.id) ELSE << >>
  IN IF task.sync THEN [st EXCEPT !.messages = task.result]
     ELSE [st EXCEPT !.sessions = IF ok /\ task.captured /\ k # 0
                                  THEN [@ EXCEPT ![k].loaded = TRUE, ![k].messages = fetched]
                                  ELSE @,
                     !.messages = fetched]

\* handleNewSession up to its await of sessionManager.createSession; list is the
\* sessions state of the render it was created in
handleNewSession(st, list) ==
  LET session == Session(GuestId(st.nonce), TRUE, << >>)
      created == CreateLocally(st.sessions, session)
  IN IF smIsGuest
     THEN Suspend([st EXCEPT !.loading = TRUE,
                             !.sessions = created,
                             !.storage = _saveGuestSessions(@, created, smIsGuest),
                             !.nonce = @ + 1],
                  [Task("createSession", session.sessionId) EXCEPT !.sync = TRUE, !.list = list])
     ELSE Suspend([st EXCEPT !.loading = TRUE,
                             !.sessions = IF smGuestCapable THEN @ ELSE << >>,
                             !.tasks = IF smGuestCapable THEN @
                                       ELSE Detach(@, SessionIds(st.sessions))],
                  [Task("createSession", NoSession) EXCEPT !.list = list])

\* handleNewSession after its await: the new session heads the list and is selected,
\* or the failure is caught; loading ends either way
handleNewSessionDone(st, task, ok) ==
  LET made == BackendSession(st.next, << >>)
      id == IF task.sync THEN task.id ELSE made.sessionId
      served == IF task.sync THEN st
                ELSE [st EXCEPT !.backend = Append(@, made),
                                !.next = @ + 1,
                                !.telemetry = SessionTelemetry(@, "CREATE_SESSION"),
                                !.tasks = Detach(@, {made.sessionId}),
                                !.sessions = CreateLocally(@, BackendView(made, beWithMessages))]
  IN IF task.sync \/ ok
     THEN [served EXCEPT !.list = <<id>> \o task.list,
                         !.current = id,
                         !.messages = << >>,
                         !.loading = FALSE]
     ELSE [st EXCEPT !.loading = FALSE]

\* handleDeleteSession(sessionId) up to its await of sessionManager.deleteSession
handleDeleteSession(st, id) ==
  LET left == DeleteLocally(st.sessions, id)
      task == [Task("deleteSession", id) EXCEPT !.list = st.list, !.current = st.current]
  IN IF smIsGuest
     THEN Suspend([st EXCEPT !.sessions = left,
                             !.tasks = Detach(@, {id}),
                             !.storage = _saveGuestSessions(@, left, smIsGuest)],
                  [task EXCEPT !.sync = TRUE])
     ELSE Suspend(st, task)

\* handleDeleteSession after its await; deleteSession returns false on a failure, which
\* the handler does not look at
handleDeleteSessionDone(st, task, ok) ==
  LET served == IF task.sync \/ ~ok THEN st
                ELSE [st EXCEPT !.backend = BackendDelete(@, task.id),
                                !.telemetry = SessionTelemetry(@, "DELETE_SESSION"),
                                !.sessions = DeleteLocally(@, task.id),
                                !.tasks = Detach(@, {task.id})]
      updatedSessions == SelectSeq(task.list, LAMBDA s : s # task.id)
      shown == [served EXCEPT !.list = updatedSessions]
  IN IF task.current # task.id THEN shown
     ELSE IF Len(updatedSessions) > 0
          THEN loadSessionMessages([shown EXCEPT !.current = updatedSessions[1]],
                                   updatedSessions[1])
          ELSE [shown EXCEPT !.current = NoSession, !.messages = << >>]

\* handleSwitchSession(sessionId)
handleSwitchSession(st, id) == loadSessionMessages([st EXCEPT !.current = id], id)

\* loadSessions, with the sessions and currentSessionId of the render it was created in
loadSessions(st, list, current) ==
  LET loadedSessions == getAllSessions(st.sessions)
  IN IF Len(loadedSessions) > 0 /\ current = NoSession
     THEN loadSessionMessages(
            [st EXCEPT !.list = [i \in 1..Len(loadedSessions) |-> loadedSessions[i].sessionId],
                       !.current = loadedSessions[1].sessionId],
            loadedSessions[1].sessionId)
     ELSE handleNewSession(st, list)

\* handleRefreshSessions up to its await of sessionManager.refreshSessions
handleRefreshSessions(st) ==
  Suspend([st EXCEPT !.loading = TRUE],
          [Task("refreshSessions", NoSession)
             EXCEPT !.sync = smIsGuest, !.list = st.list, !.current = st.current])

\* handleRefreshSessions after its await: the map holds what getUserSessions answered
\* ([] on a failure), loadSessions is called, and finally loading is set to false
handleRefreshSessionsDone(st, task, ok) ==
  LET answered == IF ok THEN BackendList(st.backend, beWithMessages) ELSE << >>
      served == IF task.sync THEN st
                ELSE [st EXCEPT !.sessions = SessionsFromList(answered, 1, << >>),
                                !.tasks = Detach(@, SessionIds(st.sessions))]
  IN [loadSessions(served, task.list, task.current) EXCEPT !.loading = FALSE]

\* buildConversationHistory: the displayed messages in API format
buildConversationHistory(messages) ==
  [i \in 1..Len(messages) |->
     Msg(IF messages[i].type = "USER" THEN User ELSE Assistant, messages[i].content)]

\* handleSendMessage up to its await of apiService.sendInferenceRequest, which has
\* issued POST /inference
handleSendMessage(st, inputValue) ==
  LET userMessage == ChatUser(inputValue)
      conversationHistory == Append(buildConversationHistory(st.messages),
                                    Msg(User, inputValue))
      shown == [st EXCEPT !.messages = Append(@, userMessage)]
  IN Suspend([AddLocally(shown, st.current, userMessage)
                EXCEPT !.loading = TRUE, !.rpc = @ + 1],
             [Task("inference", st.current)
                EXCEPT !.conv = conversationHistory, !.startTime = now])

\* handleSendMessage after its await: the response is cached, logged, displayed and
\* added to the session the handler was created for, or the error is displayed;
\* finally loading is set to false
handleSendMessageDone(st, task, ok) ==
  LET latency == now - task.startTime
      assistantMessage == ChatAssistant(TxtOk)
      caught == CatchBlock(st.telemetry, ArrayOf(task.conv), latency, ErrRequest)
      shown == [st EXCEPT !.cache = _cacheResponse(@, task.conv, TxtOk, latency,
                                                   EffectiveTtl(0), now),
                          !.telemetry = _logTelemetry(@, "INFERENCE", Len(task.conv),
                                                      latency, FALSE),
                          !.messages = Append(@, assistantMessage),
                          !.loading = FALSE]
  IN IF ok THEN AddLocally(shown, task.id, assistantMessage)
     ELSE [st EXCEPT !.telemetry = caught.telemetry,
                     !.messages = Append(@, ChatError),
                     !.loading = FALSE]

\* the handler suspended as task i goes on
Continue(st, i, ok) ==
  LET task == st.tasks[i]
      rest == [st EXCEPT !.tasks = RemoveAt(@, i)]
  IN CASE task.op = "getMessages" -> loadSessionMessagesDone(rest, task, ok)
       [] task.op = "createSession" -> handleNewSessionDone(rest, task, ok)
       [] task.op = "deleteSession" -> handleDeleteSessionDone(rest, task, ok)
       [] task.op = "refreshSessions" -> handleRefreshSessionsDone(rest, task, ok)
       [] task.op = "inference" -> handleSendMessageDone(rest, task, ok)

\* the handlers whose call has answered without a request go on, first suspended first,
\* before the next event is handled
RECURSIVE Drain(_)
Drain(st) ==
  LET ready == {i \in 1..Len(st.tasks) : st.tasks[i].sync}
  IN IF ready = {} THEN st
     ELSE Drain(Continue(st, CHOOSE i \in ready : \A j \in ready : i <= j, TRUE))

\* the state after an event
Commit(st) ==
  /\ smSessions' = st.sessions
  /\ lsGuestSessions' = st.storage
  /\ beSessions' = st.backend
  /\ beNext' = st.next
  /\ smNonce' = st.nonce
  /\ apiCache' = st.cache
  /\ apiTelemetry' = st.telemetry
  /\ rpcCalls' = st.rpc
  /\ ciCurrent' = st.current
  /\ ciSessions' = st.list
  /\ ciMessages' = st.messages
  /\ ciLoading' = st.loading
  /\ ciTasks' = st.tasks
  /\ UNCHANGED <<now, cmVars, fpVars, appVars, telVars, mmVars, apiPending, apiLast, apiSends,
                 smGuestCapable, smIsGuest, smPending, smLast, smOps, beWithMessages>>

\* what the user types in the input
ChatInputs == {TxtHi}

CanAct == ciOps < MaxChatOps
CanSuspend == CanAct /\ Len(ciTasks) < MaxChatTasks

\* the form is submitted; its input and button are disabled while loading or without
\* a current session, and the button while the input is blank
SendMessage ==
  \E inputValue \in ChatInputs :
    /\ CanSuspend
    /\ ~ciLoading /\ ciCurrent # NoSession /\ Trim(inputValue) # TxtEmpty
    /\ ciOps' = ciOps + 1
    /\ Commit(Drain(handleSendMessage(Chat, inputValue)))

\* New Chat is clicked; the button is disabled while loading
NewSession ==
  /\ CanSuspend
  /\ ~ciLoading
  /\ ciOps' = ciOps + 1
  /\ Commit(Drain(handleNewSession(Chat, ciSessions)))

\* a session of the sidebar is clicked
SwitchSession ==
  \E k \in 1..Len(ciSessions) :
    /\ CanSuspend
    /\ ciOps' = ciOps + 1
    /\ Commit(Drain(handleSwitchSession(Chat, ciSessions[k])))

\* the Delete button of a session of the sidebar is clicked
DeleteSession ==
  \E k \in 1..Len(ciSessions) :
    /\ CanSuspend
    /\ ciOps' = ciOps + 1
    /\ Commit(Drain(handleDeleteSession(Chat, ciSessions[k])))

\* Refresh is clicked
RefreshSessions ==
  /\ CanSuspend
  /\ ciOps' = ciOps + 1
  /\ Commit(Drain(handleRefreshSessions(Chat)))

\* the backend answers the request task i awaits, with a success or a failure
respond(i, ok) ==
  /\ ciOps' = ciOps
  /\ Commit(Drain(Continue(Chat, i, ok)))

Respond == \E i \in 1..Len(ciTasks), ok \in BOOLEAN : respond(i, ok)

-----------------------------------------------------------------------------
(* App.handleLogout and App.handleLoginSuccess, with the SessionManager the    *)
(* App holds.  The App's isGuest state is the mode it last initialized its     *)
(* SessionManager in.                                                          *)

\* handleLogout of a guest: 'guestUser' and 'guestSessions' are removed,
\* initializeGuestMode calls initialize(uid, true), which finds nothing stored, and
\* clearCache empties the map and removes the item; none of it waits for a request
handleLogoutGuest ==
  LET loaded == _loadGuestSessions(smSessions, StorageAbsent)
  IN /\ CanCall /\ appAwaits = "idle" /\ smIsGuest
     /\ smOps' = smOps + 1
     /\ smIsGuest' = TRUE
     /\ smSessions' = SelectSeq(loaded.sessions, LAMBDA session : FALSE)
     /\ smPending' = Detach(smPending, SessionIds(smSessions))
     /\ lsGuestSessions' = StorageAbsent
     /\ smLast' = Outcome("clearCache", << >>, TRUE, FALSE)
     /\ UNCHANGED <<otherVars, smGuestCapable, smNonce, beSessions, beNext, beWithMessages>>

\* handleLogout of a signed-in user up to its await of apiService.logout, which has
\* sent POST /auth/logout; the App shows its loading screen meanwhile
handleLogoutIssue ==
  /\ CanCall /\ appAwaits = "idle" /\ ~smIsGuest
  /\ smOps' = smOps + 1
  /\ appAwaits' = "logout"
  /\ UNCHANGED <<now, cmVars, apiVars, fpVars, smGuestCapable, smSessions, smIsGuest,
                 smPending, smLast, smNonce, lsGuestSessions, beSessions, beNext,
                 beWithMessages, ciVars, telVars, mmVars>>

\* POST /auth/logout is answered or fails: apiService.logout calls clearAuth either
\* way and never throws, and handleLogout goes on to its await of authService.signOut
handleLogoutAnswered ==
  /\ appAwaits = "logout"
  /\ appAwaits' = "signOut"
  /\ apiCache' = clearAuth(apiCache)
  /\ UNCHANGED <<now, cmVars, fpVars, smVars, ciVars, telVars, mmVars,
                 apiTelemetry, apiPending, apiLast, apiSends, rpcCalls>>

\* handleLogout after signOut.  When signOut has succeeded it has removed 'guestUser'
\* and 'guestSessions', initializeGuestMode calls initialize(uid, true) and clearCache
\* empties the map; when signOut throws, the catch block logs the error and nothing
\* else runs
handleLogoutDone(signedOut) ==
  LET loaded == _loadGuestSessions(smSessions, StorageAbsent)
  IN /\ appAwaits = "signOut"
     /\ appAwaits' = "idle"
     /\ IF signedOut
        THEN /\ smIsGuest' = TRUE
             /\ smSessions' = SelectSeq(loaded.sessions, LAMBDA session : FALSE)
             /\ smPending' = Detach(smPending, SessionIds(smSessions))
             /\ lsGuestSessions' = StorageAbsent
             /\ smLast' = Outcome("clearCache", << >>, TRUE, FALSE)
        ELSE UNCHANGED <<smIsGuest, smSessions, smPending, lsGuestSessions, smLast>>
     /\ UNCHANGED <<now, cmVars, apiVars, fpVars, smGuestCapable, smOps, smNonce,
                    beSessions, beNext, beWithMessages, ciVars, telVars, mmVars>>

HandleLogoutDone == \E signedOut \in BOOLEAN : handleLogoutDone(signedOut)

\* what the Login modal hands to handleLoginSuccess: the result of continueAsGuest
\* (isGuest, no idToken) or of signInWithGoogle
LoginResults == {"guest", "google"}

\* handleLoginSuccess(loginResult), called by the Login modal a guest has opened, up
\* to its await of apiService.login, which has sent POST /auth/login; for a guest
\* result (isGuestUser) the handler does nothing
handleLoginSuccessIssue(loginResult) ==
  /\ CanAwait /\ appAwaits = "idle" /\ smIsGuest
  /\ appAwaits' = IF loginResult = "guest" THEN "idle" ELSE "login"
  /\ UNCHANGED <<now, cmVars, apiVars, fpVars, smVars, ciVars, telVars, mmVars>>

\* POST /auth/login is answered: handleLoginSuccess calls initialize(uid, false), which
\* runs up to its await (APIService.getUserSessions answers [] when its request
\* fails); or POST /auth/login fails: the catch block alerts and awaits
\* authService.signOut
handleLoginAnswered(loggedIn, ok) ==
  /\ appAwaits = "login"
  /\ IF loggedIn
     THEN /\ appAwaits' = "initialize"
          /\ smOps' = smOps + 1
          /\ smIsGuest' = FALSE
          /\ smPending' = Append(smPending,
                                 Request("initialize", << >>, ok,
                                         IF ok THEN BackendList(beSessions, beWithMessages) ELSE << >>,
                                         << >>, FALSE))
     ELSE /\ appAwaits' = "loginSignOut"
          /\ UNCHANGED <<smOps, smIsGuest, smPending>>
  /\ UNCHANGED <<now, cmVars, apiVars, fpVars, smGuestCapable, smSessions, smLast, smNonce,
                 lsGuestSessions, beSessions, beNext, beWithMessages, ciVars, telVars, mmVars>>

\* handleLoginSuccess after initialize(uid, false) has returned: the map holds the
\* backend's sessions and the App leaves guest mode
handleLoginDone(i) ==
  /\ appAwaits = "initialize"
  /\ smPending[i].op = "initialize"
  /\ appAwaits' = "idle"
  /\ smSessions' = SessionsFromList(smPending[i].sessions, 1, << >>)
  /\ smPending' = Detach(RemoveAt(smPending, i), SessionIds(smSessions))
  /\ smLast' = [Outcome("initialize", << >>, TRUE, FALSE) EXCEPT !.reported = smPending[i].sessions]
  /\ UNCHANGED <<now, cmVars, apiVars, fpVars, smGuestCapable, smIsGuest, smOps, smNonce,
                 lsGuestSessions, beSessions, beNext, beWithMessages, ciVars, telVars, mmVars>>

\* handleLoginSuccess after the signOut of its catch block: AuthService.signOut has
\* removed 'guestUser' and 'guestSessions' when it succeeded, and no SessionManager
\* method is called, so the map is left as it was; when signOut throws, the outer
\* catch block alerts and nothing else runs
handleLoginSignedOut(signedOut) ==
  /\ appAwaits = "loginSignOut"
  /\ appAwaits' = "idle"
  /\ lsGuestSessions' = IF signedOut THEN StorageAbsent ELSE lsGuestSessions
  /\ UNCHANGED <<now, cmVars, apiVars, fpVars, smGuestCapable, smSessions, smIsGuest,
                 smPending, smLast, smOps, smNonce, beSessions, beNext, beWithMessages,
                 ciVars, telVars, mmVars>>

HandleLoginSuccessIssue == \E loginResult \in LoginResults : handleLoginSuccessIssue(loginResult)
HandleLoginAnswered == \E loggedIn \in BOOLEAN, ok \in BOOLEAN : handleLoginAnswered(loggedIn, ok)
HandleLoginDone == \E i \in Awaiting : handleLoginDone(i)
HandleLoginSignedOut == \E signedOut \in BOOLEAN : handleLoginSignedOut(signedOut)

-----------------------------------------------------------------------------
(* TelemetryService *)

\* this.maxLogs
maxLogs == 1000

\* the default metadata = {} of log
NoMetadata == 0

\* a literal message, and the template literal of clearLogs
Message(text) == <<text>>
ClearedMessage(count) == <<"Logs cleared (", count, " entries removed)">>

logKeepingAll(logs, t, level, component, message, metadata) ==
  Append(logs, [timestamp |-> t, level |-> level, component |-> component,
                message |-> message, metadata |-> metadata, uptime |-> t - StartTime])

\* TelemetryService.log: this.logs after the call; the entry returned is its last one
log(logs, t, level, component, message, metadata) ==
  LET logEntry == [timestamp |-> t, level |-> level, component |-> component,
                   message |-> message, metadata |-> metadata, uptime |-> t - StartTime]
      pushed == Append(logs, logEntry)
  IN IF Len(pushed) > maxLogs THEN Tail(pushed) ELSE pushed

\* TelemetryService.clearLogs: this.logs after the call
clearLogsResult(logs, t) ==
  log(<< >>, t, "INFO", "SYSTEM", ClearedMessage(Len(logs)), NoMetadata)

LogLevels == {"INFO", "ERROR"}
LogMetadata == {1, 2}

CanLog == tsCalls < MaxLogCalls

logCall(level, metadata) ==
  /\ CanLog
  /\ tsCalls' = tsCalls + 1
  /\ tsLogs' = log(tsLogs, now, level, "INFERENCE", Message("Inference request processed"), metadata)
  /\ UNCHANGED <<now, cmVars, apiVars, fpVars, smVars, ciVars, appVars, mmVars>>

Log == \E level \in LogLevels, metadata \in LogMetadata : logCall(level, metadata)

clearLogs ==
  /\ CanLog
  /\ tsCalls' = tsCalls + 1
  /\ tsLogs' = clearLogsResult(tsLogs, now)
  /\ UNCHANGED <<now, cmVars, apiVars, fpVars, smVars, ciVars, appVars, mmVars>>

-----------------------------------------------------------------------------
(* ModelManager *)

\* the ids of this.models
ModelIds == {"tinyllama-1.1b", "phi-2", "mistral-7b-mini"}

ErrLoading == "Model loading already in progress"
ErrNotFound == "Model not found"

\* new ModelManager()
ModelManagerInit ==
  /\ mmCurrentModel = << >>
  /\ mmLoadedModel = << >>
  /\ mmIsLoading = FALSE
  /\ mmStatus = "uninitialized"
  /\ mmLoading = << >>
  /\ mmLast = [op |-> "none", ret |-> << >>, threw |-> "none"]
  /\ mmOps = 0

\* getModel(modelId): <<id>> of the model found, << >> for undefined
getModel(modelId) == IF modelId \in ModelIds THEN <<modelId>> ELSE << >>

\* isModelLoaded()
isModelLoaded(currentModel, status) == currentModel # << >> /\ status = "ready"

CanCallModel == mmOps < MaxModelOps

\* loadModel(modelId) up to its await of the timer, or up to its throw
loadModel(modelId) ==
  /\ CanCallModel
  /\ mmOps' = mmOps + 1
  /\ IF mmIsLoading
     THEN /\ mmLast' = [op |-> "loadModel", ret |-> << >>, threw |-> ErrLoading]
          /\ UNCHANGED <<mmCurrentModel, mmLoadedModel, mmIsLoading, mmStatus, mmLoading>>
     ELSE IF getModel(modelId) = << >>
     THEN /\ mmLast' = [op |-> "loadModel", ret |-> << >>, threw |-> ErrNotFound]
          /\ UNCHANGED <<mmCurrentModel, mmLoadedModel, mmIsLoading, mmStatus, mmLoading>>
     ELSE /\ mmIsLoading' = TRUE
          /\ mmStatus' = "loading"
          /\ mmLoading' = Append(mmLoading, getModel(modelId))
          /\ UNCHANGED <<mmCurrentModel, mmLoadedModel, mmLast>>
  /\ UNCHANGED <<now, cmVars, apiVars, fpVars, smVars, ciVars, appVars, telVars>>

\* loadModel after its timer has fired: the timer's promise never rejects, so the
\* catch block is never entered
loadModelDone(i) ==
  /\ mmCurrentModel' = mmLoading[i]
  /\ mmLoadedModel' = mmLoading[i]
  /\ mmStatus' = "ready"
  /\ mmIsLoading' = FALSE
  /\ mmLoading' = RemoveAt(mmLoading, i)
  /\ mmLast' = [op |-> "loadModel", ret |-> mmLoading[i], threw |-> "none"]
  /\ UNCHANGED <<now, cmVars, apiVars, fpVars, smVars, ciVars, appVars, telVars, mmOps>>

\* unloadModel()
unloadModel ==
  /\ CanCallModel
  /\ mmOps' = mmOps + 1
  /\ mmLast' = [op |-> "unloadModel", ret |-> mmLoadedModel, threw |-> "none"]
  /\ IF mmLoadedModel # << >>
     THEN /\ mmCurrentModel' = << >>
          /\ mmLoadedModel' = << >>
          /\ mmStatus' = "uninitialized"
          /\ UNCHANGED <<mmIsLoading, mmLoading>>
     ELSE UNCHANGED <<mmCurrentModel, mmLoadedModel, mmIsLoading, mmStatus, mmLoading>>
  /\ UNCHANGED <<now, cmVars, apiVars, fpVars, smVars, ciVars, appVars, telVars>>

\* the ids loadModel is called with: the known ones and an unknown one
LoadInputs == ModelIds \cup {"gpt-x"}

LoadModel == \E modelId \in LoadInputs : loadModel(modelId)
LoadModelDone == \E i \in 1..Len(mmLoading) : loadModelDone(i)

-----------------------------------------------------------------------------
(* Specifications *)

\* App with no handleLogout under way, a TelemetryService never used and a new
\* ModelManager
AppIdle == appAwaits = "idle" /\ tsLogs = << >> /\ tsCalls = 0 /\ ModelManagerInit

\* a SessionManager never used
SessionManagerIdle ==
  /\ smGuestCapable = TRUE
  /\ smSessions = << >>
  /\ smIsGuest = FALSE
  /\ smPending = << >>
  /\ smLast = NoOp
  /\ smOps = 0
  /\ smNonce = 1
  /\ lsGuestSessions = StorageAbsent
  /\ beSessions = << >>
  /\ beNext = 3
  /\ beWithMessages = FALSE

\* CacheManager alone
InitCache == now = StartTime /\ CacheManagerInit /\ APIServiceInit /\ FingerprintIdle /\ SessionManagerIdle /\ ChatInterfaceIdle /\ AppIdle

NextCache ==
  \/ CachePut \/ CacheGet \/ CacheRemove \/ clear \/ purgeExpired
  \/ CacheSetTTL \/ CacheSetMaxSize \/ Tick

SpecCache == InitCache /\ [][NextCache]_vars

\* APIService.sendInferenceRequest and its cache
InitApi == now = StartTime /\ CacheManagerDefault /\ APIServiceInit /\ FingerprintIdle /\ SessionManagerIdle /\ ChatInterfaceIdle /\ AppIdle

NextApi ==
  \/ SendInvalid \/ SendIssue \/ SendResolve \/ SendReject
  \/ clearAuthCall \/ AdminIssue \/ AdminDone \/ Tick

SpecApi == InitApi /\ [][NextApi]_vars

\* _generateCacheKey on pairs of conversations
InitKey == now = StartTime /\ CacheManagerDefault /\ APIServiceInit /\ FingerprintInputs /\ SessionManagerIdle /\ ChatInterfaceIdle /\ AppIdle

NextKey == FingerprintA \/ FingerprintB

SpecKey == InitKey /\ [][NextKey]_vars

\* SessionManager of either class, in both modes, with its storage and backend
InitSession ==
  /\ now = StartTime /\ CacheManagerDefault /\ APIServiceInit /\ FingerprintIdle
  /\ SessionManagerInit /\ ChatInterfaceIdle /\ AppIdle

NextSession ==
  \/ initializeGuest \/ InitializeIssue \/ InitializeDone
  \/ createSessionGuest \/ CreateSessionIssue \/ CreateSessionDone
  \/ GetSessionLocal \/ GetSessionIssue \/ GetSessionDone
  \/ refreshSessionsGuest \/ RefreshSessionsIssue \/ RefreshSessionsDone
  \/ AddMessageLocally
  \/ GetMessagesLocal \/ GetMessagesIssue \/ GetMessagesDone
  \/ ClearHistoryGuest \/ ClearHistoryIssue \/ ClearHistoryDone
  \/ DeleteSessionGuest \/ DeleteSessionIssue \/ DeleteSessionDone
  \/ clearCache

SpecSession == InitSession /\ [][NextSession]_vars

\* a guest-capable SessionManager that is only ever initialized in guest mode
InitLocal ==
  /\ now = StartTime /\ CacheManagerDefault /\ APIServiceInit /\ FingerprintIdle
  /\ SessionManagerInit /\ ChatInterfaceIdle /\ AppIdle
  /\ smGuestCapable = TRUE
  /\ beSessions = << >>
  /\ beWithMessages = FALSE

NextLocal ==
  \/ initializeGuest
  \/ createSessionGuest
  \/ GetSessionLocal
  \/ refreshSessionsGuest
  \/ AddMessageLocally
  \/ GetMessagesLocal
  \/ ClearHistoryGuest
  \/ DeleteSessionGuest
  \/ clearCache

SpecLocal == InitLocal /\ [][NextLocal]_vars

\* ChatInterface mounted by an App that has initialized its SessionManager, in guest
\* mode from the storage or for a signed-in user from the backend: the state before
\* the component's effect runs
Mounting(storage, backend) ==
  [sessions |-> IF smIsGuest THEN _loadGuestSessions(<< >>, storage).sessions
                ELSE SessionsFromList(BackendList(backend, beWithMessages), 1, << >>),
   storage |-> storage, backend |-> backend, next |-> 3, nonce |-> 1,
   cache |-> << >>,
   telemetry |-> [totalRequests |-> 0, cacheHits |-> 0, cacheMisses |-> 0,
                  totalLatency |-> 0, requests |-> << >>],
   rpc |-> 0,
   current |-> NoSession, list |-> << >>, messages |-> << >>, loading |-> FALSE,
   tasks |-> << >>]

\* the state once the effect has called loadSessions
Mounted(storage, backend) == Drain(loadSessions(Mounting(storage, backend), << >>, NoSession))

\* ChatInterface with the SessionManager and APIService of the App; a guest has no
\* sessions in the backend, and a signed-in user's storage is never read
InitChat ==
  /\ now = StartTime /\ CacheManagerDefault /\ FingerprintIdle
  /\ apiPending = << >> /\ apiLast = NoSend /\ apiSends = 0
  /\ smGuestCapable \in BOOLEAN
  /\ smIsGuest \in {g \in BOOLEAN : g => smGuestCapable}
  /\ smPending = << >> /\ smLast = NoOp /\ smOps = 0
  /\ beWithMessages \in (IF smIsGuest THEN {FALSE} ELSE BOOLEAN)
  /\ ciOps = 0 /\ AppIdle
  /\ \E storage \in (IF smIsGuest THEN StorageChoices ELSE {StorageAbsent}),
        backend \in (IF smIsGuest THEN {<< >>} ELSE BackendChoices) :
       /\ smSessions = Mounted(storage, backend).sessions
       /\ lsGuestSessions = Mounted(storage, backend).storage
       /\ beSessions = Mounted(storage, backend).backend
       /\ beNext = Mounted(storage, backend).next
       /\ smNonce = Mounted(storage, backend).nonce
       /\ apiCache = Mounted(storage, backend).cache
       /\ apiTelemetry = Mounted(storage, backend).telemetry
       /\ rpcCalls = Mounted(storage, backend).rpc
       /\ ciCurrent = Mounted(storage, backend).current
       /\ ciSessions = Mounted(storage, backend).list
       /\ ciMessages = Mounted(storage, backend).messages
       /\ ciLoading = Mounted(storage, backend).loading
       /\ ciTasks = Mounted(storage, backend).tasks

NextChat ==
  \/ SendMessage \/ NewSession \/ SwitchSession \/ DeleteSession \/ RefreshSessions
  \/ Respond

SpecChat == InitChat /\ [][NextChat]_vars

\* the backend answers every request: each handler suspended at a request goes on
SpecChatFair == SpecChat /\ WF_vars(Respond)


\* the App after initializeApp, as a guest or signed in, with a guest-capable
\* SessionManager; the calls ChatInterface makes on it, handleLogout and
\* handleLoginSuccess
InitApp ==
  /\ now = StartTime /\ CacheManagerDefault /\ APIServiceInit /\ FingerprintIdle
  /\ ChatInterfaceIdle /\ AppIdle
  /\ smGuestCapable = TRUE
  /\ smIsGuest \in BOOLEAN
  /\ lsGuestSessions \in StorageChoices
  /\ beSessions \in BackendChoices
  /\ beWithMessages \in BOOLEAN
  /\ beNext = 3
  /\ smSessions = IF smIsGuest THEN _loadGuestSessions(<< >>, lsGuestSessions).sessions
                  ELSE SessionsFromList(BackendList(beSessions, beWithMessages), 1, << >>)
  /\ smPending = << >>
  /\ smLast = NoOp
  /\ smOps = 0
  /\ smNonce = 1

NextApp ==
  \/ AppIdle /\ createSessionGuest
  \/ AppIdle /\ CreateSessionIssue
  \/ AppIdle /\ AddMessageLocally
  \/ AppIdle /\ RefreshSessionsIssue
  \/ CreateSessionDone \/ RefreshSessionsDone
  \/ AppIdle /\ SendIssue
  \/ SendResolve
  \/ handleLogoutGuest \/ handleLogoutIssue \/ handleLogoutAnswered \/ HandleLogoutDone
  \/ HandleLoginSuccessIssue \/ HandleLoginAnswered \/ HandleLoginDone \/ HandleLoginSignedOut

SpecApp == InitApp /\ [][NextApp]_vars

\* the lookups of the two caches: CacheManager.get and APIService._checkCache
InitLookup ==
  /\ now = StartTime /\ CacheManagerInit /\ APIServiceInit /\ FingerprintIdle
  /\ SessionManagerIdle /\ ChatInterfaceIdle /\ AppIdle

CanLookUp == cmSteps + apiSends < MaxLookupOps

NextLookup ==
  \/ CanLookUp /\ CachePut
  \/ CanLookUp /\ CacheGet
  \/ CanLookUp /\ SendIssue
  \/ CanLookUp /\ CheckCache
  \/ CanLookUp /\ CacheRemove
  \/ CanLookUp /\ purgeExpired
  \/ CanLookUp /\ clearAuthCall
  \/ SendResolve
  \/ Tick

SpecLookup == InitLookup /\ [][NextLookup]_vars

\* both logs, empty or filled up to their capacity by earlier events
TelemetryStarts == {0, maxLogs - 1, maxLogs}

\* the logs after n events recorded at construction time, n at most the capacity
Logged(n) ==
  [k \in 1..n |-> [timestamp |-> StartTime, level |-> "INFO", component |-> "INFERENCE",
                   message |-> Message("Inference request processed"), metadata |-> k,
                   uptime |-> 0]]

Requested(n) ==
  [totalRequests |-> n, cacheHits |-> 0, cacheMisses |-> 0, totalLatency |-> 0,
   requests |-> [k \in 1..n |-> [action |-> "INFERENCE", messageCount |-> k % (MaxConvLen + 1),
                                 latency |-> 0, isCached |-> FALSE]]]

InitTelemetry ==
  /\ now = StartTime /\ CacheManagerDefault /\ FingerprintIdle
  /\ SessionManagerIdle /\ ChatInterfaceIdle
  /\ apiCache = << >> /\ apiPending = << >> /\ apiLast = NoSend /\ apiSends = 0 /\ rpcCalls = 0
  /\ appAwaits = "idle" /\ tsCalls = 0 /\ ModelManagerInit
  /\ \E n \in TelemetryStarts : apiTelemetry = Requested(n) /\ tsLogs = Logged(n)

\* the events recorded by either service share one budget
CanRecord == tsCalls + apiSends < MaxLogCalls

NextTelemetry ==
  \/ CanRecord /\ SendInvalid
  \/ CanRecord /\ SendIssue
  \/ SendResolve
  \/ SendReject
  \/ CanRecord /\ AdminIssue
  \/ AdminDone
  \/ CanRecord /\ Log
  \/ CanRecord /\ clearLogs

SpecTelemetry == InitTelemetry /\ [][NextTelemetry]_vars

\* a ModelManager and its callers
InitModel ==
  /\ now = StartTime /\ CacheManagerDefault /\ APIServiceInit /\ FingerprintIdle
  /\ SessionManagerIdle /\ ChatInterfaceIdle /\ AppIdle

NextModel == LoadModel \/ LoadModelDone \/ unloadModel

SpecModel == InitModel /\ [][NextModel]_vars

-----------------------------------------------------------------------------
(* Claims *)

\* the entry sendInferenceRequest would find for conv, stored by an earlier successful
\* call and not yet at its expiry time
HasFreshEntry(conv) ==
  LET i == KeyIndex(apiCache, _generateCacheKey(conv))
  IN i # 0 /\ now < apiCache[i].expiresAt

\* C1: a send whose conversation has the same last user turn as an earlier successful
\* send, with that send's cache entry not expired, returns isCached = true and issues
\* no POST /inference.
C1_SecondSendServedFromCache ==
  [][\A conv \in SendConversations :
       (apiSends' = apiSends + 1 /\ apiLast'.conv = conv /\ conv # ConvEmpty
          /\ HasFreshEntry(conv))
       => (rpcCalls' = rpcCalls /\ apiLast'.kind = "returned" /\ apiLast'.isCached)]_vars

\* C2: a get at a probe time in [T, T+t) returns the entry stored at T, a get at a probe
\* time >= T+t (T+t included) returns null.
C2_LookupWithinTtlOnly ==
  [][\A i \in 1..Len(cmCache) :
       (cmLast'.op = "get" /\ cmSteps' = cmSteps + 1 /\ cmLast'.key = cmCache[i].key)
       => ((cmLast'.ret # << >>) <=> (now < cmCache[i].expiresAt))]_vars

\* C3: after a put the total estimated size of the entries held is at most maxSize.
C3_SizeWithinMaxAfterPut ==
  cmLast.op = "put" => _getCacheSize(cmCache) <= cmMaxSize

\* C4: every entry evicted by put or setMaxSize has a createdAt less than or equal to
\* the createdAt of every entry the eviction left in the cache.
C4_EvictionOldestFirst ==
  cmLast.op \in {"put", "setMaxSize"} =>
    \A i \in 1..Len(cmLast.evicted), j \in 1..Len(cmLast.kept) :
      cmLast.evicted[i].createdAt <= cmLast.kept[j].createdAt

C4_Witness ==
  /\ cmLast.op \in {"put", "setMaxSize"}
  /\ \E i \in 1..Len(cmLast.evicted), j \in 1..Len(cmLast.kept) :
       cmLast.evicted[i].createdAt < cmLast.kept[j].createdAt

\* positions of the final user turn of a conversation (empty when it has none)
FinalUserTurns(conv) ==
  {i \in 1..Len(conv) : conv[i].role = User /\ \A j \in (i + 1)..Len(conv) : conv[j].role # User}

SameFinalUserTurn(a, b) ==
  \/ FinalUserTurns(a) = {} /\ FinalUserTurns(b) = {}
  \/ \E i \in FinalUserTurns(a), j \in FinalUserTurns(b) : a[i].content = b[j].content

\* C5: two conversations whose final user turns have the same content get the same key,
\* whatever their earlier turns, assistant turns and lengths are.
C5_KeyOfFinalUserTurnOnly ==
  (fpKeyA # Null /\ fpKeyB # Null /\ SameFinalUserTurn(fpConvA, fpConvB)) => fpKeyA = fpKeyB

C5_Witness ==
  /\ fpKeyA # Null /\ fpKeyB # Null
  /\ Len(fpConvA) # Len(fpConvB)
  /\ \E i \in FinalUserTurns(fpConvA), j \in FinalUserTurns(fpConvB) :
       /\ fpConvA[i].content = fpConvB[j].content
       /\ i > 1 /\ fpConvA[1] # fpConvB[1]
  /\ fpKeyA = fpKeyB

\* the map of a fresh SessionManager after initialize(userId, true) on this localStorage
Reloaded == _loadGuestSessions(<< >>, lsGuestSessions).sessions

\* what getMessages returns for a session whose messages are held
MessagesOf(sessions, id) == getMessagesCached(sessions, TRUE, id)[1]

\* C6: in guest mode, after every call, a fresh SessionManager initialized in guest
\* mode from the same localStorage holds exactly the sessions and messages of the
\* map; a created session has a 'guest_session_' id and is among them, and a message
\* appended to a held session is the last one getMessages returns, before and after
\* the reload.
C6_GuestRoundTrip ==
  [][ /\ smIsGuest' => Reloaded' = smSessions'
      /\ createSessionGuest =>
            /\ smLast'.id[1] = GuestPrefix
            /\ smLast'.id \in SessionIds(Reloaded')
      /\ \A id \in CallIds, message \in StoreMessages :
            (smIsGuest /\ addMessageLocally(id, message) /\ SessionIndex(smSessions, id) # 0) =>
               /\ MessagesOf(smSessions', id) = Append(MessagesOf(smSessions, id), message)
               /\ MessagesOf(Reloaded', id) = MessagesOf(smSessions', id)
    ]_vars

C6_Witness ==
  /\ smIsGuest
  /\ smLast.op = "addMessageLocally" /\ smLast.held
  /\ smLast.id = GuestId(1)
  /\ Len(smSessions) = 2
  /\ MessagesOf(Reloaded, GuestId(1)) # << >>
  /\ Reloaded = smSessions

\* C7: initialize followed immediately by getAllSessions returns exactly the sessions
\* initialize reported, in either mode and whatever the map held before.
C7_InitializeReplacesMap ==
  [][ (initializeGuest \/ InitializeDone) => getAllSessions(smSessions') = smLast'.reported ]_vars

\* the session the last call named is held and getMessages returns [] for it
ClearedAndPresent ==
  /\ SessionIndex(smSessions, smLast.id) # 0
  /\ getMessagesCached(smSessions, smIsGuest, smLast.id) = << << >> >>

\* C8: after clearHistory on a held session, in either mode, getMessages returns []
\* for it and the session is still held.
C8_ClearHistoryEmpties ==
  [][ ((ClearHistoryGuest \/ ClearHistoryDone) /\ smLast'.held) => ClearedAndPresent' ]_vars

\* the session the last call named is not held, and getSession answers null for it:
\* at once in guest mode, after the backend has no such session otherwise
Gone ==
  /\ smLast.id \notin SessionIds(getAllSessions(smSessions))
  /\ smIsGuest \/ BackendGet(beSessions, smLast.id, beWithMessages) = << >>

\* C9: after deleteSession, in either mode, getSession returns null for the session
\* and its id is not in getAllSessions.
C9_DeleteRemoves ==
  [][ (DeleteSessionGuest \/ DeleteSessionDone) => Gone' ]_vars

\* a createSession call returns its session on this step
CreateSessionReturns == createSessionGuest \/ (CreateSessionDone /\ smLast'.ok)

\* C10 as stated: after a successful createSession, in either mode, getAllSessions
\* returns exactly one session, the new one.
C10_CreateLeavesOnlyNew ==
  [][ CreateSessionReturns =>
        /\ Len(getAllSessions(smSessions')) = 1
        /\ smSessions'[1].sessionId = smLast'.id ]_vars

\* C10 amended: only the backend-only SessionManager clears the map, when createSession
\* is called; with the guest-capable SessionManager a successful createSession, in
\* either mode, keeps every session held before it and adds the new one.
C10_CreateKeepsOthers ==
  [][ /\ (smGuestCapable /\ CreateSessionReturns) =>
            /\ SessionIds(smSessions') = SessionIds(smSessions) \cup {smLast'.id}
            /\ \A k \in 1..Len(smSessions) :
                  smSessions[k].sessionId # smLast'.id =>
                    smSessions'[SessionIndex(smSessions', smSessions[k].sessionId)] = smSessions[k]
      /\ (~smGuestCapable /\ CreateSessionIssue) => smSessions' = << >>
    ]_vars

C10_Witness ==
  /\ smGuestCapable
  /\ smLast.op = "createSession" /\ smLast.ok
  /\ smLast.id \in SessionIds(smSessions)
  /\ Len(smSessions) >= 2

\* C11: a step taken in guest mode sends no request to the session backend and does
\* not change what the backend holds, and a step taken in remote mode leaves the
\* 'guestSessions' item of localStorage as it was; the item is read only by
\* initialize(userId, true), which is a guest-mode step.
C11_OneBackendPerMode ==
  [][ /\ smIsGuest' =>
            /\ Len(smPending') <= Len(smPending)
            /\ beSessions' = beSessions /\ beNext' = beNext
      /\ ~smIsGuest' => lsGuestSessions' = lsGuestSessions
      /\ initializeGuest => smIsGuest'
    ]_vars

C11_Witness ==
  /\ smIsGuest
  /\ smLast.op = "deleteSession" /\ smLast.held
  /\ beSessions # << >>
  /\ lsGuestSessions.present
  /\ smPending = << >>

\* C12: once initialize has returned on a SessionManager instance, in guest or in
\* remote mode, no later step changes the mode of that instance.
C12_ModeFixed ==
  [][ smLast.op = "initialize" => smIsGuest' = smIsGuest ]_vars

\* C13: when the backend request of refreshSessions fails in remote mode, the call
\* returns normally, the map is left as it was, and the list returned is the sessions
\* the map held before the call returned.
C13_RefreshFailureKeepsMap ==
  [][ (RefreshSessionsDone /\ ~smLast'.ok) =>
        /\ smSessions' = smSessions
        /\ smLast'.reported = getAllSessions(smSessions) ]_vars

\* C14: in remote mode, when the backend request of createSession, deleteSession or
\* clearHistory fails, the call ends by throwing to its caller instead of returning,
\* and a failed deleteSession or clearHistory leaves the map as it was.
C14_WriteFailurePropagates ==
  [][ /\ (CreateSessionDone /\ ~smLast'.ok) => smLast'.threw
      /\ ((DeleteSessionDone \/ ClearHistoryDone) /\ ~smLast'.ok) =>
            /\ smLast'.threw
            /\ smSessions' = smSessions ]_vars

\* what initialize gives a caller whose backend answered that the user has no sessions
InitializeOfNoSessions == Outcome("initialize", << >>, TRUE, FALSE)

\* C15: when the backend request of initialize fails in remote mode, initialize gives
\* its caller an empty list together with a signal that tells the failure from a
\* user without sessions.
C15_InitializeFailureSignalled ==
  [][ \A i \in Awaiting :
        (initializeDone(i) /\ ~smPending[i].ok) =>
           /\ smLast'.reported = << >>
           /\ smLast' # InitializeOfNoSessions ]_vars

\* the action of the newest telemetry entry ("none" when the log is empty)
LastLogged(tel) ==
  IF tel.requests = << >> THEN "none" ELSE tel.requests[Len(tel.requests)].action

\* C16: when the inference request fails inside sendInferenceRequest, the cache is
\* left as it was, exactly one telemetry entry is recorded, an ERROR entry, and the
\* request's failure is thrown to the caller.
C16_RpcFailureLoggedAndThrown ==
  [][ SendReject =>
        /\ apiCache' = apiCache
        /\ apiTelemetry'.totalRequests = apiTelemetry.totalRequests + 1
        /\ LastLogged(apiTelemetry') = "ERROR"
        /\ apiLast'.kind = "threw"
        /\ apiLast'.error = ErrRequest ]_vars

\* a request has failed while the cache held a response: the cache still holds it,
\* the newest telemetry entry is the ERROR entry and the request's error was thrown
C16_Witness ==
  /\ apiLast.kind = "threw" /\ apiLast.error = ErrRequest
  /\ apiLast.conv = ConvHi
  /\ apiCache # << >>
  /\ LastLogged(apiTelemetry) = "ERROR"
  /\ apiTelemetry.totalRequests = 2

\* C17: sendInferenceRequest given an empty array or a value that is not an array
\* throws the invalid-input error without sending the inference request and without
\* storing anything in the cache.
C17_InvalidInputRejected ==
  [][ SendInvalid =>
        /\ apiLast'.kind = "threw"
        /\ apiLast'.error = ErrInvalid
        /\ rpcCalls' = rpcCalls
        /\ apiPending' = apiPending
        /\ apiCache' = apiCache ]_vars

\* the messages the map holds for a session ([] while its messages are not loaded)
HeldMessages(sessions, id) ==
  IF sessions[SessionIndex(sessions, id)].loaded
  THEN sessions[SessionIndex(sessions, id)].messages
  ELSE << >>

IsPrefix(a, b) == Len(a) <= Len(b) /\ SubSeq(b, 1, Len(a)) = a

\* a step of addMessageLocally, getMessages, clearHistory, refreshSessions or initialize
MessageStoreStep ==
  \/ AddMessageLocally
  \/ GetMessagesLocal \/ GetMessagesIssue \/ GetMessagesDone
  \/ ClearHistoryGuest \/ ClearHistoryIssue \/ ClearHistoryDone
  \/ refreshSessionsGuest \/ RefreshSessionsIssue \/ RefreshSessionsDone
  \/ initializeGuest \/ InitializeIssue \/ InitializeDone

\* C19: a step of addMessageLocally, getMessages, clearHistory, refreshSessions or
\* initialize leaves the messages of every session the map holds before and after it
\* unchanged, or extended at the end, or empty.
C19_MessagesAppendedOrCleared ==
  [][ MessageStoreStep =>
        \A id \in SessionIds(smSessions) \cap SessionIds(smSessions') :
          \/ HeldMessages(smSessions', id) = << >>
          \/ IsPrefix(HeldMessages(smSessions, id), HeldMessages(smSessions', id)) ]_vars

\* C20: whatever the user does while responses are pending (send, switch session,
\* delete session, refresh sessions, new chat), ChatInterface never has two inference
\* requests in flight at the same time for the same session
C20_SendsSerialized ==
  \A i, j \in 1..Len(ciTasks) :
    (/\ ciTasks[i].op = "inference" /\ ciTasks[j].op = "inference"
     /\ ciTasks[i].id = ciTasks[j].id) => i = j

\* C21: while the application is in guest mode nothing is sent to the backend: no
\* POST /inference is issued, and no request carrying a guest session id or the
\* user's messages is awaiting an answer
C21_GuestDataStaysLocal ==
  smIsGuest =>
    /\ rpcCalls = 0
    /\ \A i \in 1..Len(ciTasks) : ciTasks[i].sync

\* C22: every handleLogout, of a guest or of a signed-in user and whether or not the
\* sign-out call fails, ends in guest mode with the session map empty and the item
\* 'guestSessions' removed
C22_LogoutEndsInClearedGuestMode ==
  [][ (handleLogoutGuest \/ HandleLogoutDone) =>
        /\ smIsGuest'
        /\ smSessions' = << >>
        /\ ~lsGuestSessions'.present ]_vars

\* the entry of the CacheManager cache, or of the APIService cache, that a lookup of
\* this key finds past its expiry time
ExpiredIndex(cache, key) ==
  LET i == KeyIndex(cache, key)
  IN IF i # 0 /\ now > cache[i].expiresAt THEN i ELSE 0

\* C23: every lookup, CacheManager.get and APIService._checkCache alike, adds one to
\* exactly one of the hit and miss counters, to the hit counter if and only if it
\* returns an entry, and a lookup that finds an expired entry removes it from the cache
C23_LookupCountsAndPurges ==
  [][ /\ \A p \in Prompts :
           get(p) =>
             /\ cmStats'.hits + cmStats'.misses = cmStats.hits + cmStats.misses + 1
             /\ cmStats'.hits = cmStats.hits + 1 <=> cmLast'.ret # << >>
             /\ cmStats'.hits \in {cmStats.hits, cmStats.hits + 1}
             /\ ExpiredIndex(cmCache, _generateKey(p)) # 0 =>
                  KeyIndex(cmCache', _generateKey(p)) = 0
      /\ \A conv \in SendConversations :
           (checkCache(conv) /\ ~_generateCacheKeyThrows(conv)) =>
             /\ apiTelemetry'.cacheHits + apiTelemetry'.cacheMisses
                  = apiTelemetry.cacheHits + apiTelemetry.cacheMisses + 1
             /\ apiTelemetry'.cacheHits = apiTelemetry.cacheHits + 1 <=> apiLast'.kind = "hit"
             /\ apiTelemetry'.cacheHits \in {apiTelemetry.cacheHits, apiTelemetry.cacheHits + 1}
             /\ ExpiredIndex(apiCache, _generateCacheKey(conv)) # 0 =>
                  KeyIndex(apiCache', _generateCacheKey(conv)) = 0 ]_vars

\* new is old with at most one event recorded at its end, the oldest entry dropped
\* when the capacity cap is exceeded
KeepsMostRecent(old, new, cap) ==
  \/ new = old
  \/ /\ new # << >>
     /\ LET pushed == Append(old, new[Len(new)])
        IN new = IF Len(pushed) > cap THEN Tail(pushed) ELSE pushed

LogsWithinCapacity ==
  /\ Len(apiTelemetry'.requests) <= MaxTelemetryLog
  /\ Len(tsLogs') <= maxLogs
  /\ KeepsMostRecent(apiTelemetry.requests, apiTelemetry'.requests, MaxTelemetryLog)

\* C24 as stated: neither log ever holds more than 1000 entries, each step leaves a
\* log as it was or records one event at its end, and an entry leaves a log only as
\* the oldest one when the capacity is exceeded.
C24_Original_LogsAppendOnly ==
  [][ LogsWithinCapacity /\ KeepsMostRecent(tsLogs, tsLogs', maxLogs) ]_vars

\* C24 amended: neither log ever holds more than 1000 entries and each step leaves
\* a log as it was or records one event at its end, dropping the oldest entry when
\* the capacity is exceeded; the only other removal is TelemetryService.clearLogs,
\* which leaves the single SYSTEM entry that reports how many entries it removed.
C24_LogsBoundedAndRecent ==
  [][ /\ LogsWithinCapacity
      /\ \/ KeepsMostRecent(tsLogs, tsLogs', maxLogs)
         \/ /\ clearLogs
            /\ Len(tsLogs') = 1
            /\ tsLogs'[1].component = "SYSTEM"
            /\ tsLogs'[1].message = ClearedMessage(Len(tsLogs)) ]_vars

\* both logs have exceeded their capacity and dropped their oldest entry
C24_Witness ==
  /\ tsCalls > 0
  /\ Len(tsLogs) = maxLogs
  /\ tsLogs[1].metadata = 2
  /\ apiTelemetry.totalRequests > MaxTelemetryLog
  /\ Len(apiTelemetry.requests) = MaxTelemetryLog

\* C25: in remote mode getMessages answers from the local copy only for a session
\* whose messages were loaded; a session whose messages were never loaded is still
\* fetched from the backend by the next getMessages after addMessageLocally was
\* called on it.
C25_LocalMessageKeepsFetch ==
  [][ \A id \in CallIds, message \in StoreMessages :
        LET i == SessionIndex(smSessions, id)
        IN (addMessageLocally(id, message) /\ ~smIsGuest /\ i # 0 /\ ~smSessions[i].loaded)
             => getMessagesCached(smSessions', smIsGuest', id) = << >> ]_vars

\* C26: when the answer to an inference request arrives, the assistant message or the
\* error bubble is appended to the displayed messages only if the session the request
\* was made for is still the current one; otherwise the displayed messages stay as
\* they are.
C26_ResponseShownInItsSession ==
  [][ \A i \in 1..Len(ciTasks), ok \in BOOLEAN :
        (respond(i, ok) /\ ciTasks[i].op = "inference" /\ ciTasks[i].id # ciCurrent)
          => ciMessages' = ciMessages ]_vars

\* the handlers suspended at sessionManager.createSession
CreatesPending(tasks) == Len(SelectSeq(tasks, LAMBDA task : task.op = "createSession"))

\* C27: handleRefreshSessions only re-reads the sessions: neither its first part nor
\* its continuation creates a session (no guest session id is drawn, no createSession
\* is issued, the backend makes no session), and whenever a session is selected the
\* selection stays as it is.
C27_RefreshOnlyReReads ==
  [][ (\/ RefreshSessions
       \/ \E i \in 1..Len(ciTasks), ok \in BOOLEAN :
            respond(i, ok) /\ ciTasks[i].op = "refreshSessions")
        => /\ smNonce' = smNonce
           /\ beNext' = beNext
           /\ CreatesPending(ciTasks') <= CreatesPending(ciTasks)
           /\ ciCurrent # NoSession => ciCurrent' = ciCurrent ]_vars

\* C28: when handleNewSession or handleDeleteSession has completed, also after a
\* failed backend call, the session ids of the sidebar list are exactly the ids of
\* sessionManager.getAllSessions().
C28_ListMatchesStore ==
  [][ (\/ smIsGuest /\ (NewSession \/ DeleteSession)
       \/ \E i \in 1..Len(ciTasks), ok \in BOOLEAN :
            respond(i, ok) /\ ciTasks[i].op \in {"createSession", "deleteSession"})
        => {ciSessions'[k] : k \in 1..Len(ciSessions')}
             = {getAllSessions(smSessions')[k].sessionId : k \in 1..Len(smSessions')} ]_vars

\* C29: at most one load is in flight, a loadModel issued while another one is
\* loading is rejected and changes no state, isLoading is true exactly when the
\* status is 'loading', and isModelLoaded() holds exactly when currentModel and
\* loadedModel are the same non-null model and the status is 'ready'.
C29_ModelManagerConsistent ==
  [][ /\ Len(mmLoading') <= 1
      /\ \A modelId \in LoadInputs :
           (loadModel(modelId) /\ mmIsLoading)
             => /\ mmLast'.threw = ErrLoading
                /\ UNCHANGED <<mmCurrentModel, mmLoadedModel, mmIsLoading, mmStatus, mmLoading>>
      /\ mmIsLoading' <=> mmStatus' = "loading"
      /\ isModelLoaded(mmCurrentModel', mmStatus')
           <=> (mmCurrentModel' = mmLoadedModel' /\ mmCurrentModel' # << >> /\ mmStatus' = "ready") ]_vars

\* the user messages the store holds for this session, 0 when it does not hold it
UserCount(sessions, id) ==
  LET i == SessionIndex(sessions, id)
  IN IF i = 0 THEN 0
     ELSE Len(SelectSeq(sessions[i].messages, LAMBDA m : m.type = "USER"))

\* C30: every send releases the input and stores its user message: once loading is
\* true it eventually becomes false again, given that the backend answers every
\* request; the send adds its user message to the store's current session exactly
\* once; and when the send completes, by success or failure, the store's session
\* still holds a user message if it still holds the session.
C30_SendReleasesAndStores ==
  /\ [](ciLoading => <>~ciLoading)
  /\ [][ SendMessage
           => UserCount(smSessions', ciCurrent) = UserCount(smSessions, ciCurrent) + 1 ]_vars
  /\ [][ \A i \in 1..Len(ciTasks), ok \in BOOLEAN :
           (respond(i, ok) /\ ciTasks[i].op = "inference"
              /\ SessionIndex(smSessions', ciTasks[i].id) # 0)
             => UserCount(smSessions', ciTasks[i].id) >= 1 ]_vars

=============================================================================
